---- MODULE Spec2Model ----
(***************************************************************************)
(* Layout reconstruction and structured content extraction of              *)
(* quest-pdf-tools: reading order (doc_layout.py), the persisted detection *)
(* record and redaction (pdf_processor.py, remove_irrelevant.py), the      *)
(* /remove-irrelevant/ endpoint (api.py) and section extraction            *)
(* (extractor_helper.py).                                                  *)
(*                                                                         *)
(* Coordinates are integers (pixels at 300 DPI).  A detection's confidence *)
(* is an integer number of 1e-5 units; a record row's confidence is the    *)
(* 4-decimal text the CSV holds, an integer number of 1e-4 units.          *)
(***************************************************************************)
EXTENDS Integers, Sequences, FiniteSets, TLC

VARIABLES
    \* ---- PDFLayoutProcessor.process_pdf (doc_layout.py) ----
    num_pages,      \* len(pdf_document)
    pc,             \* position inside process_pdf
    page_num,       \* the loop variable of process_pdf (0-based)
    detected,       \* page_detections of every page processed so far
    pages_data,     \* pages_data: ordered detections, one entry per page
    temp_images,    \* pages whose temp_page_N.png exists in temp_dir
    temp_dir,       \* TRUE while temp_dir exists
    record,         \* the detections CSV: [exists, rows]
    result,         \* outcome of process_pdf
    \* ---- direct calls of the reading-order functions ----
    call_elements,  \* elements: the argument of the call
    called,         \* which function was called: "none", "reorder", "irregular"
    call_ordered,   \* the list the call returned
    call_sections,  \* sections built by _process_irregular_layout
    \* ---- PDFProcessor.remove_irrelevant_boxes and /remove-irrelevant/ ----
    rq_pc,          \* position inside the endpoint / remove_irrelevant_boxes
    via_endpoint,   \* TRUE when called by the /remove-irrelevant/ handler
    pdf_exists,     \* os.path.exists(self.pdf_path)
    self_page_width,  \* self.page_width, in 1/1000 point
    self_page_height, \* self.page_height, in 1/1000 point
    detect_runs,    \* runs of PDFLayoutProcessor.process_pdf made by the call
    csv_page_detections, \* page_detections: rows grouped by 0-based page
    rd_page,        \* loop variable of the page loop (0-based)
    applied,        \* 0-based page -> rectangles redacted on it
    modifications_made,
    output_pdf,     \* file at self.output_pdf: "absent", "stale", "written"
    ret,            \* return value of remove_irrelevant_boxes
    response,       \* what the endpoint answered
    \* ---- extract_section (extractor_helper.py) ----
    doc_text,       \* text: the argument of extract_section
    doc_parts,      \* the pieces doc_text was put together from
    requested,      \* section_terms: the argument of extract_section
    sx_pc,          \* position inside extract_section
    section_matches,    \* section_matches, sorted by start
    sx_index,       \* position of the loop over section_matches (1-based)
    extracted_sections, \* extracted_sections
    section_result, \* the value extract_section returned
    \* ---- remove_references_section (extractor_helper.py) ----
    refs_pc,  \* position inside remove_references_section
    refs_result, \* the text remove_references_section returned
    \* ---- remove_duplicate_pargraphs (extractor_helper.py) ----
    dd_pc,  \* number of applications made so far
    dd_text,  \* text: the argument of the first application
    dd_once,  \* the result of the first application
    dd_twice, \* the result of applying it to dd_once
    \* ---- PDFProcessor.extract_figures / _tables / _text / _markdown ----
    ex_pc,  \* position inside the extraction operation
    ex_op,  \* which operation: "figures", "tables", "text", "markdown"
    ex_pdf_exists,  \* whether the PDF at pdf_path can be opened
    ex_had_record,  \* whether the record existed when the operation started
    ex_detect_runs,  \* runs of PDFLayoutProcessor.process_pdf made by the operation
    ex_rows,  \* the rows the operation kept from the record (none before it reads)
    ex_result, \* what the operation returned
    \* ---- PDFLayoutProcessor._cleanup_temp_dir ----
    cleanup_failed, \* whether shutil.rmtree raised inside _cleanup_temp_dir
    \* ---- PDFProcessor operations over a record with malformed rows or failing pages ----
    rw_pc,  \* position inside the operation
    rw_op,  \* which operation reads the record
    rw_rows,  \* the rows csv.DictReader yields, each with the field that does not parse
    rw_failing,  \* pages on which rasterization, cropping or text extraction raises
    rw_items,  \* the rows the operation kept, in the order it visits them
    rw_index,  \* rows of rw_items visited so far
    rw_output,  \* ids of the rows that have contributed to the output
    rw_result, \* what the operation returned
    \* ---- PDFProcessor.extract_text, the loop that joins the element texts ----
    jn_pc,  \* position inside the loop
    jn_rows,  \* the kept rows in record order, each with its class and its text
    jn_index,  \* rows visited so far
    jn_extracted,  \* extracted_text: the pieces appended so far
    jn_final, \* final_text
    \* ---- the /extract-sections/ endpoint (src/src/api.py) ----
    se_pc,  \* position inside the handler
    se_section_type,  \* the section_type parameter of the request
    se_extract_raises,  \* whether processor.extract_sections raises for this upload
    se_raised,  \* the exception raised inside the try block, if any
    se_status,  \* HTTP status of the answer
    se_body, \* the key of the JSON answer
    \* ---- remove_irrelevant.py: PDFProcessor.remove_irrelevant_boxes ----
    ri_pc,  \* position in remove_irrelevant_boxes of remove_irrelevant.py
    ri_page_detections,  \* its page_detections dictionary
    ri_page,  \* its loop variable page_num
    ri_applied,  \* page index -> rectangles it redacted on the page
    ri_modifications_made,  \* its modifications_made flag
    ri_output_pdf,  \* the file at its output path
    ri_ret, \* its return value
    \* ---- run.py: main in full mode ----
    args_mode,  \* args.mode
    mn_pc,  \* position in main
    backend_process,  \* state of the process behind backend_process
    backend_returncode,  \* <<its exit status>> once it has exited, <<>> before
    frontend_process,  \* state of the app.py process of run_frontend
    frontend_returncode,  \* <<its exit status>> once it has exited, <<>> before
    mn_raised,  \* exception propagating in main
    terminate_calls,  \* number of calls of backend_process.terminate()
    wait_calls,  \* number of calls of backend_process.wait()
    exit_code  \* <<exit status of run.py>> once main is done, <<>> before

layoutVars == <<num_pages, pc, page_num, detected, pages_data, temp_images,
                temp_dir, record, result>>

callVars == <<call_elements, called, call_ordered, call_sections>>

redactVars == <<rq_pc, via_endpoint, pdf_exists, self_page_width,
                self_page_height, detect_runs, csv_page_detections, rd_page, applied,
                modifications_made, output_pdf, ret, response>>

sectionVars == <<doc_text, doc_parts, requested, sx_pc, section_matches,
                 sx_index, extracted_sections, section_result>>

refsVars == <<refs_pc, refs_result>>

dedupVars == <<dd_pc, dd_text, dd_once, dd_twice>>

extractVars == <<ex_pc, ex_op, ex_pdf_exists, ex_had_record, ex_detect_runs, ex_rows, ex_result>>

tempVars == <<cleanup_failed>>

rowsVars == <<rw_pc, rw_op, rw_rows, rw_failing, rw_items, rw_index, rw_output, rw_result>>

joinVars == <<jn_pc, jn_rows, jn_index, jn_extracted, jn_final>>

endpointVars == <<se_pc, se_section_type, se_extract_raises, se_raised, se_status, se_body>>

removeVars == <<ri_pc, ri_page_detections, ri_page, ri_applied, ri_modifications_made, ri_output_pdf, ri_ret>>

runVars == <<args_mode, mn_pc, backend_process, backend_returncode, frontend_process, frontend_returncode, mn_raised, terminate_calls, wait_calls, exit_code>>

vars == <<layoutVars, callVars, redactVars, sectionVars, refsVars, dedupVars, extractVars, tempVars, rowsVars, joinVars, endpointVars, removeVars, runVars>>

\* What the actions of one group leave alone.  The redaction reads the
\* document (num_pages) and the record, which it may regenerate.
layoutLocals == <<pc, page_num, detected, pages_data, temp_images, temp_dir, result>>
notLayout == <<callVars, redactVars, sectionVars, refsVars, dedupVars, extractVars, tempVars, rowsVars, joinVars, endpointVars, removeVars, runVars>>
notTemp == <<callVars, redactVars, sectionVars, refsVars, dedupVars, extractVars, rowsVars, joinVars, endpointVars, removeVars, runVars>>
notRows == <<layoutVars, callVars, redactVars, sectionVars, refsVars, dedupVars, extractVars, tempVars, joinVars, endpointVars, removeVars, runVars>>
notJoin == <<layoutVars, callVars, redactVars, sectionVars, refsVars, dedupVars, extractVars, tempVars, rowsVars, endpointVars, removeVars, runVars>>
notEndpoint == <<layoutVars, callVars, redactVars, sectionVars, refsVars, dedupVars, extractVars, tempVars, rowsVars, joinVars, removeVars, runVars>>
notRemove == <<layoutVars, callVars, redactVars, sectionVars, refsVars, dedupVars, extractVars, tempVars, rowsVars, joinVars, endpointVars, runVars>>
notRun == <<layoutVars, callVars, redactVars, sectionVars, refsVars, dedupVars, extractVars, tempVars, rowsVars, joinVars, endpointVars, removeVars>>
notCall == <<layoutVars, redactVars, sectionVars, refsVars, dedupVars, extractVars, tempVars, rowsVars, joinVars, endpointVars, removeVars, runVars>>
notRedact == <<layoutLocals, callVars, sectionVars, refsVars, dedupVars, extractVars, tempVars, rowsVars, joinVars, endpointVars, removeVars, runVars>>
notSection == <<layoutVars, callVars, redactVars, refsVars, dedupVars, extractVars, tempVars, rowsVars, joinVars, endpointVars, removeVars, runVars>>
notRefs == <<layoutVars, callVars, redactVars, sectionVars, dedupVars, extractVars, tempVars, rowsVars, joinVars, endpointVars, removeVars, runVars>>
notDedup == <<layoutVars, callVars, redactVars, sectionVars, refsVars, extractVars, tempVars, rowsVars, joinVars, endpointVars, removeVars, runVars>>
notExtract == <<layoutLocals, callVars, redactVars, sectionVars, refsVars, dedupVars, tempVars, rowsVars, joinVars, endpointVars, removeVars, runVars>>

----------------------------------------------------------------------------
\* Bounds of the model.
MaxPages == 2
MaxDet == 4
NumBoxes == 30
MaxRows == 3

\* Detector outputs used to exercise the code: class, confidence (1e-5 units)
\* and xyxy box.  x0 in {0, 1, 7, 14} falls in different histogram bins and
\* on both sides of the column split lines; y0 in {0, 1} gives ties.
Boxes ==
    { [class_id |-> 2, confidence |-> 20000, coordinates |-> <<0, 1, 6, 3>>],
      [class_id |-> 2, confidence |-> 19990, coordinates |-> <<1, 0, 7, 2>>],
      [class_id |-> 1, confidence |-> 90000, coordinates |-> <<1, 1, 7, 3>>],
      [class_id |-> 3, confidence |-> 19996, coordinates |-> <<14, 0, 20, 2>>],
      [class_id |-> 0, confidence |-> 55550, coordinates |-> <<7, 1, 13, 3>>] }

SeqsUpTo(S, k) == UNION { [1..n -> S] : n \in 0..k }

Max(S) == CHOOSE m \in S : \A x \in S : x <= m

RECURSIVE SumLen(_)
SumLen(ss) == IF ss = <<>> THEN 0 ELSE Len(Head(ss)) + SumLen(Tail(ss))

----------------------------------------------------------------------------
\* doc_layout.py

X0(elem) == elem.coordinates[1]
Y0(elem) == elem.coordinates[2]
X1(elem) == elem.coordinates[3]
Y1(elem) == elem.coordinates[4]

\* _process_detection_results: one fresh dict per detector box, in detector
\* order.  id stands for the identity of the dict object (its position in
\* the detector output); it is never written to the record.
ProcessDetectionResults(det_res) ==
    [i \in 1..Len(det_res) |->
        [id |-> i,
         class_id |-> det_res[i].class_id,
         confidence |-> det_res[i].confidence,
         coordinates |-> det_res[i].coordinates]]

\* np.max(boxes[:, 2]) and np.max(boxes[:, 3])
PageWidth(elements) == Max({X1(elements[i]) : i \in 1..Len(elements)})
PageHeight(elements) == Max({Y1(elements[i]) : i \in 1..Len(elements)})

\* np.histogram(x_coords, bins=20, range=(0, page_width)): the bin of one x0.
\* The last bin is closed on the right; a zero-width range is widened by
\* numpy to (-0.5, 0.5), which puts 0 into bin 10.
HistogramBins == 20
BinOf(x0, page_width) ==
    IF page_width = 0 THEN 10
    ELSE IF x0 = page_width THEN HistogramBins - 1
    ELSE (x0 * HistogramBins) \div page_width

Histogram(elements, page_width) ==
    [b \in 0..(HistogramBins - 1) |->
        Cardinality({i \in 1..Len(elements) :
                        /\ X0(elements[i]) >= 0
                        /\ X0(elements[i]) <= page_width
                        /\ BinOf(X0(elements[i]), page_width) = b})]

\* peaks = bins with count > len(boxes) * 0.1
Peaks(elements, page_width) ==
    {b \in 0..(HistogramBins - 1) :
        10 * Histogram(elements, page_width)[b] > Len(elements)}

DetectColumns_peaks(elements, page_width) ==
    LET n == Cardinality(Peaks(elements, page_width))
    IN  IF n <= 1 THEN 1 ELSE n

DetectColumns(elements, page_width) ==
    LET n == Cardinality(Peaks(elements, page_width))
    IN  IF n <= 1 THEN 1
        ELSE IF n = 2 THEN 2
        ELSE IF n >= 3 THEN 3
        ELSE 1

\* sorted(..., key=y0) and list.sort(key=y0): stable, so an element goes
\* after every element already placed whose key is <= its own.
RECURSIVE InsertByY0_unstable(_, _)
InsertByY0_unstable(sorted, elem) ==
    IF sorted = <<>> THEN <<elem>>
    ELSE IF Y0(Head(sorted)) < Y0(elem)
         THEN <<Head(sorted)>> \o InsertByY0_unstable(Tail(sorted), elem)
         ELSE <<elem>> \o sorted

RECURSIVE InsertByY0(_, _)
InsertByY0(sorted, elem) ==
    IF sorted = <<>> THEN <<elem>>
    ELSE IF Y0(Head(sorted)) <= Y0(elem)
         THEN <<Head(sorted)>> \o InsertByY0(Tail(sorted), elem)
         ELSE <<elem>> \o sorted

RECURSIVE SortByY0(_)
SortByY0(elements) ==
    IF elements = <<>> THEN <<>>
    ELSE InsertByY0(SortByY0(SubSeq(elements, 1, Len(elements) - 1)),
                    elements[Len(elements)])

SortSingleColumn(elements) == SortByY0(elements)

\* The loops of _sort_two_columns / _sort_three_columns append each element
\* to its column in input order: SelectSeq.  The split lines are
\* page_width / 2, page_width / 3 and 2 * page_width / 3; the comparisons
\* are written without the division.
SortTwoColumns_swapped(elements, page_width) ==
    LET left_column == SelectSeq(elements, LAMBDA e : 2 * X0(e) < page_width)
        right_column == SelectSeq(elements, LAMBDA e : ~(2 * X0(e) < page_width))
    IN  SortByY0(right_column) \o SortByY0(left_column)

SortTwoColumns(elements, page_width) ==
    LET left_column == SelectSeq(elements, LAMBDA e : 2 * X0(e) < page_width)
        right_column == SelectSeq(elements, LAMBDA e : ~(2 * X0(e) < page_width))
    IN  SortByY0(left_column) \o SortByY0(right_column)

SortThreeColumns_open(elements, page_width) ==
    LET left_column == SelectSeq(elements, LAMBDA e : 3 * X0(e) < page_width)
        middle_column ==
            SelectSeq(elements, LAMBDA e : /\ page_width < 3 * X0(e)
                                           /\ 3 * X0(e) < 2 * page_width)
        right_column ==
            SelectSeq(elements, LAMBDA e : /\ ~(3 * X0(e) < page_width)
                                           /\ ~(3 * X0(e) < 2 * page_width))
    IN  SortByY0(left_column) \o SortByY0(middle_column) \o SortByY0(right_column)

SortThreeColumns(elements, page_width) ==
    LET left_column == SelectSeq(elements, LAMBDA e : 3 * X0(e) < page_width)
        middle_column ==
            SelectSeq(elements, LAMBDA e : /\ ~(3 * X0(e) < page_width)
                                           /\ 3 * X0(e) < 2 * page_width)
        right_column ==
            SelectSeq(elements, LAMBDA e : /\ ~(3 * X0(e) < page_width)
                                           /\ ~(3 * X0(e) < 2 * page_width))
    IN  SortByY0(left_column) \o SortByY0(middle_column) \o SortByY0(right_column)

\* _process_irregular_layout: the sections it builds.  previous_y starts at
\* -inf, so the first element always exceeds the gap (first = TRUE); the
\* test y0 - previous_y > page_height * 0.1 is written without the product.
RECURSIVE SplitSections_inclusive(_, _, _, _, _, _)
SplitSections_inclusive(rest, sections, current_section, first, previous_y, page_height) ==
    IF rest = <<>>
    THEN IF current_section # <<>> THEN Append(sections, current_section) ELSE sections
    ELSE LET elem == Head(rest)
             gap == first \/ 10 * (Y0(elem) - previous_y) >= page_height
             close == gap /\ current_section # <<>>
         IN  SplitSections_inclusive(Tail(rest),
                           IF close THEN Append(sections, current_section) ELSE sections,
                           IF close THEN <<elem>> ELSE Append(current_section, elem),
                           FALSE, Y0(elem), page_height)

RECURSIVE SplitSections(_, _, _, _, _, _)
SplitSections(rest, sections, current_section, first, previous_y, page_height) ==
    IF rest = <<>>
    THEN IF current_section # <<>> THEN Append(sections, current_section) ELSE sections
    ELSE LET elem == Head(rest)
             gap == first \/ 10 * (Y0(elem) - previous_y) > page_height
             close == gap /\ current_section # <<>>
         IN  SplitSections(Tail(rest),
                           IF close THEN Append(sections, current_section) ELSE sections,
                           IF close THEN <<elem>> ELSE Append(current_section, elem),
                           FALSE, Y0(elem), page_height)

IrregularSections(elements, page_height) ==
    SplitSections(SortByY0(elements), <<>>, <<>>, TRUE, 0, page_height)

RECURSIVE ExtendSorted(_)
ExtendSorted(sections) ==
    IF sections = <<>> THEN <<>>
    ELSE SortSingleColumn(Head(sections)) \o ExtendSorted(Tail(sections))

ProcessIrregularLayout(elements, page_height) ==
    ExtendSorted(IrregularSections(elements, page_height))

\* _reorder_detections
ReorderDetections_leftover(elements) ==
    LET fresh == IF elements = <<>> THEN elements
                 ELSE IF DetectColumns(elements, PageWidth(elements)) = 1
                      THEN SortSingleColumn(elements)
                 ELSE IF DetectColumns(elements, PageWidth(elements)) = 2
                      THEN SortTwoColumns(elements, PageWidth(elements))
                 ELSE SortThreeColumns(elements, PageWidth(elements))
    IN  IF pages_data = <<>> THEN fresh
        ELSE pages_data[Len(pages_data)] \o fresh

ReorderDetections(elements) ==
    IF elements = <<>> THEN elements
    ELSE LET page_width == PageWidth(elements)
             page_height == PageHeight(elements)
             num_columns == DetectColumns(elements, page_width)
         IN  IF num_columns = 1 THEN SortSingleColumn(elements)
             ELSE IF num_columns = 2 THEN SortTwoColumns(elements, page_width)
             ELSE IF num_columns = 3 THEN SortThreeColumns(elements, page_width)
             ELSE ProcessIrregularLayout(elements, page_height)

\* _reorder_detections raises only from numpy: np.max of an empty array
\* (excluded by the guard on empty input) and np.histogram with a range
\* whose upper end is below 0.
ReorderRaises_noguard(elements) ==
    elements = <<>> \/ PageWidth(elements) < 0

ReorderRaises(elements) ==
    elements # <<>> /\ PageWidth(elements) < 0

\* f"{confidence:.4f}": 1e-5 units rounded to 1e-4 units (no value used
\* here sits exactly between two 4-decimal numbers).
Format4(confidence) == (confidence + 5) \div 10

\* _save_detection_results: the data rows of the CSV, page by page in the
\* insertion order of pages_data, enumerate(detections, start=1).
PageRows_from0(page, detections) ==
    [k \in 1..Len(detections) |->
        [page_number |-> page,
         order |-> k - 1,
         class_id |-> detections[k].class_id,
         confidence |-> Format4(detections[k].confidence),
         x0 |-> detections[k].coordinates[1],
         y0 |-> detections[k].coordinates[2],
         x1 |-> detections[k].coordinates[3],
         y1 |-> detections[k].coordinates[4]]]

PageRows(page, detections) ==
    [k \in 1..Len(detections) |->
        [page_number |-> page,
         order |-> k,
         class_id |-> detections[k].class_id,
         confidence |-> Format4(detections[k].confidence),
         x0 |-> detections[k].coordinates[1],
         y0 |-> detections[k].coordinates[2],
         x1 |-> detections[k].coordinates[3],
         y1 |-> detections[k].coordinates[4]]]

RECURSIVE SaveDetectionResults(_)
SaveDetectionResults(data) ==
    IF data = <<>> THEN <<>>
    ELSE SaveDetectionResults(SubSeq(data, 1, Len(data) - 1))
            \o PageRows(Len(data), data[Len(data)])

----------------------------------------------------------------------------
\* process_pdf, one action per step of its body.

NoRecord == [exists |-> FALSE, rows |-> <<>>]

InitLayout ==
    /\ num_pages \in 1..MaxPages
    /\ pc = "start"
    /\ page_num = 0
    /\ detected = <<>>
    /\ pages_data = <<>>
    /\ temp_images = {}
    /\ temp_dir = FALSE
    /\ record = NoRecord
    /\ result = "none"

\* temp_dir.mkdir, _get_pdf_dimensions, pages_data = {}, fitz.open
ProcessPdfOpen ==
    /\ pc = "start"
    /\ temp_dir' = TRUE
    /\ pages_data' = <<>>
    /\ page_num' = 0
    /\ pc' = "loop"
    /\ UNCHANGED <<num_pages, detected, temp_images, record, result>>
    /\ UNCHANGED notLayout

\* One iteration of the page loop: rasterize to temp_page_N.png, predict,
\* _process_detection_results, _reorder_detections, store, annotate, unlink.
\* An exception leaves through the finally clause (_cleanup_temp_dir).
ProcessPage ==
    /\ pc = "loop"
    /\ page_num < num_pages
    /\ \E det_res \in SeqsUpTo(Boxes, MaxDet - SumLen(detected)) :
         LET page_detections == ProcessDetectionResults(det_res)
         IN  IF ReorderRaises(page_detections)
             THEN /\ result' = "raised"
                  /\ pc' = "done"
                  /\ temp_images' = {}
                  /\ temp_dir' = FALSE
                  /\ detected' = Append(detected, page_detections)
                  /\ UNCHANGED <<pages_data, page_num>>
             ELSE /\ pages_data' = Append(pages_data, ReorderDetections(page_detections))
                  /\ detected' = Append(detected, page_detections)
                  /\ temp_images' = (temp_images \cup {page_num + 1}) \ {page_num + 1}
                  /\ page_num' = page_num + 1
                  /\ UNCHANGED <<pc, temp_dir, result>>
    /\ UNCHANGED <<num_pages, record>>
    /\ UNCHANGED notLayout

\* After the loop: save the annotated PDF, _save_detection_results, return;
\* then the finally clause removes temp_dir.
ProcessPdfSave ==
    /\ pc = "loop"
    /\ page_num = num_pages
    /\ record' = [exists |-> TRUE, rows |-> SaveDetectionResults(pages_data)]
    /\ result' = "returned"
    /\ temp_images' = {}
    /\ temp_dir' = FALSE
    /\ pc' = "done"
    /\ UNCHANGED <<num_pages, page_num, detected, pages_data>>
    /\ UNCHANGED notLayout

NextLayout == ProcessPdfOpen \/ ProcessPage \/ ProcessPdfSave

IdleLayout ==
    /\ num_pages = 0
    /\ pc = "idle"
    /\ page_num = 0
    /\ detected = <<>>
    /\ pages_data = <<>>
    /\ temp_images = {}
    /\ temp_dir = FALSE
    /\ record = NoRecord
    /\ result = "none"

IdleCall ==
    /\ call_elements = <<>>
    /\ called = "idle"
    /\ call_ordered = <<>>
    /\ call_sections = <<>>

IdleRedact ==
    /\ rq_pc = "idle"
    /\ via_endpoint = FALSE
    /\ pdf_exists = TRUE
    /\ self_page_width = 0
    /\ self_page_height = 0
    /\ detect_runs = 0
    /\ csv_page_detections = <<>>
    /\ rd_page = 0
    /\ applied = <<>>
    /\ modifications_made = FALSE
    /\ output_pdf = "absent"
    /\ ret = "none"
    /\ response = "none"

IdleSection ==
    /\ doc_text = ""
    /\ doc_parts = <<>>
    /\ requested = <<>>
    /\ sx_pc = "idle"
    /\ section_matches = <<>>
    /\ sx_index = 1
    /\ extracted_sections = <<>>
    /\ section_result = ""

IdleRefs ==
    /\ refs_pc = "idle"
    /\ refs_result = ""

IdleDedup ==
    /\ dd_pc = -1
    /\ dd_text = ""
    /\ dd_once = ""
    /\ dd_twice = ""

IdleExtract ==
    /\ ex_pc = "idle"
    /\ ex_op = "none"
    /\ ex_pdf_exists = FALSE
    /\ ex_had_record = FALSE
    /\ ex_detect_runs = 0
    /\ ex_rows = <<>>
    /\ ex_result = <<>>

IdleTemp ==
    /\ cleanup_failed = FALSE

IdleRows ==
    /\ rw_pc = "idle"
    /\ rw_op = "none"
    /\ rw_rows = <<>>
    /\ rw_failing = {}
    /\ rw_items = <<>>
    /\ rw_index = 0
    /\ rw_output = <<>>
    /\ rw_result = "none"

IdleJoin ==
    /\ jn_pc = "idle"
    /\ jn_rows = <<>>
    /\ jn_index = 0
    /\ jn_extracted = <<>>
    /\ jn_final = ""

IdleEndpoint ==
    /\ se_pc = "idle"
    /\ se_section_type = ""
    /\ se_extract_raises = FALSE
    /\ se_raised = "none"
    /\ se_status = 0
    /\ se_body = ""

IdleRemove ==
    /\ ri_pc = "idle"
    /\ ri_page_detections = <<>>
    /\ ri_page = 0
    /\ ri_applied = <<>>
    /\ ri_modifications_made = FALSE
    /\ ri_output_pdf = "absent"
    /\ ri_ret = "none"

IdleRun ==
    /\ args_mode = "none"
    /\ mn_pc = "idle"
    /\ backend_process = "none"
    /\ backend_returncode = <<>>
    /\ frontend_process = "none"
    /\ frontend_returncode = <<>>
    /\ mn_raised = "none"
    /\ terminate_calls = 0
    /\ wait_calls = 0
    /\ exit_code = <<>>

Init == InitLayout /\ IdleCall /\ IdleRedact /\ IdleSection /\ IdleRefs /\ IdleDedup /\ IdleExtract /\ IdleTemp /\ IdleRows /\ IdleJoin /\ IdleEndpoint /\ IdleRemove /\ IdleRun
Next == NextLayout
Spec == Init /\ [][Next]_vars

----------------------------------------------------------------------------
\* The reading-order functions called directly on one list of detections.

\* A page of NumBoxes boxes in two bands of x0: the boxes at even positions
\* up to 2 * n_left form the left band (x0 from la), the others the right
\* band (x0 from ra); x0 varies inside a band by up to jitter, every box is
\* box_width wide, and y0 follows one of two patterns (all different, or
\* four values with many ties).
TwoBandPage(n_left, la, ra, jitter, box_width, ypat) ==
    [i \in 1..NumBoxes |->
        LET left == (i % 2 = 0) /\ (i <= 2 * n_left)
            x0 == (IF left THEN la ELSE ra) + (i % (jitter + 1))
            y0 == IF ypat = 1 THEN ((i * 7) % NumBoxes) * 10 ELSE (i % 4) * 10
        IN  [id |-> i, class_id |-> 1, confidence |-> 90000,
             coordinates |-> <<x0, y0, x0 + box_width, y0 + 8>>]]

LeftStarts == {0, 10}
RightStarts == {30, 60, 100}

TwoBandPages ==
    { TwoBandPage(n_left, la, ra, jitter, box_width, ypat) :
        n_left \in {3, 15}, la \in LeftStarts, ra \in RightStarts,
        jitter \in {0, 4}, box_width \in {20, 100}, ypat \in {1, 2} }

\* Short pages whose y0 gaps are below, at and above 10% of the page height
\* (20, or 25 when a taller box is present).
GapBoxes ==
    { [class_id |-> 1, confidence |-> 90000, coordinates |-> <<0, y0, 10, y1>>] :
        y0 \in {0, 2, 5}, y1 \in {20, 25} }

InitCall ==
    /\ call_elements \in TwoBandPages
            \cup { ProcessDetectionResults(d) : d \in SeqsUpTo(GapBoxes, MaxDet) }
    /\ called = "none"
    /\ call_ordered = <<>>
    /\ call_sections = <<>>

CallReorderDetections ==
    /\ called = "none"
    /\ ~ReorderRaises(call_elements)
    /\ call_ordered' = ReorderDetections(call_elements)
    /\ called' = "reorder"
    /\ UNCHANGED <<call_elements, call_sections>>
    /\ UNCHANGED notCall

CallProcessIrregularLayout ==
    /\ called = "none"
    /\ call_elements # <<>>
    /\ call_sections' = IrregularSections(call_elements, PageHeight(call_elements))
    /\ call_ordered' = ProcessIrregularLayout(call_elements, PageHeight(call_elements))
    /\ called' = "irregular"
    /\ UNCHANGED call_elements
    /\ UNCHANGED notCall

NextCall == CallReorderDetections \/ CallProcessIrregularLayout

InitCallSpec == InitCall /\ IdleLayout /\ IdleRedact /\ IdleSection /\ IdleRefs /\ IdleDedup /\ IdleExtract /\ IdleTemp /\ IdleRows /\ IdleJoin /\ IdleEndpoint /\ IdleRemove /\ IdleRun
SpecCall == InitCallSpec /\ [][NextCall]_vars

----------------------------------------------------------------------------
\* pdf_processor.py: PDFProcessor.remove_irrelevant_boxes, and the
\* /remove-irrelevant/ handler of api.py that calls it.

AbandonClass == 2
ConfThreshold == 2000
DetectorDPI == 300
PdfDPI == 72

\* Page sizes in 1/1000 point: US letter and A4.
PageSizes == { <<612000, 792000>>, <<595276, 841890>> }

\* int(self.page_width * 300 / 72)
ImageDim(points_milli) == (points_milli * DetectorDPI) \div (PdfDPI * 1000)

\* scale_coordinates: coords[i] * self.page_width / image_width, kept as
\* the fraction <<numerator, denominator>> in 1/1000 point.
ScaleCoordinates(coords, image_width, image_height) ==
    [x0 |-> <<coords[1] * self_page_width, image_width>>,
     y0 |-> <<coords[2] * self_page_height, image_height>>,
     x1 |-> <<coords[3] * self_page_width, image_width>>,
     y1 |-> <<coords[4] * self_page_height, image_height>>]

\* process_detections: the rectangles to redact for one row of the record.
\* A division by zero in scale_coordinates is caught and gives no rectangle.
ProcessDetections_strict(detection_row) ==
    LET image_width == ImageDim(self_page_width)
        image_height == ImageDim(self_page_height)
        coords == <<detection_row.x0, detection_row.y0,
                    detection_row.x1, detection_row.y1>>
    IN  IF detection_row.class_id = AbandonClass
            /\ detection_row.confidence > ConfThreshold
        THEN IF image_width = 0 \/ image_height = 0 THEN <<>>
             ELSE <<ScaleCoordinates(coords, image_width, image_height)>>
        ELSE <<>>

ProcessDetections(detection_row) ==
    LET image_width == ImageDim(self_page_width)
        image_height == ImageDim(self_page_height)
        coords == <<detection_row.x0, detection_row.y0,
                    detection_row.x1, detection_row.y1>>
    IN  IF detection_row.class_id = AbandonClass
            /\ detection_row.confidence >= ConfThreshold
        THEN IF image_width = 0 \/ image_height = 0 THEN <<>>
             ELSE <<ScaleCoordinates(coords, image_width, image_height)>>
        ELSE <<>>

\* all_redactions of one page: process_detections over its rows, in order.
RECURSIVE AllRedactions(_)
AllRedactions(detections) ==
    IF detections = <<>> THEN <<>>
    ELSE ProcessDetections(Head(detections)) \o AllRedactions(Tail(detections))

\* The CSV read loop: rows grouped under int(row["page_number"]) - 1.
GroupByPage(rows) ==
    [p \in {rows[i].page_number - 1 : i \in 1..Len(rows)} |->
        SelectSeq(rows, LAMBDA row : row.page_number - 1 = p)]

\* validate_inputs
ValidateInputs == pdf_exists /\ record.exists

\* if modifications_made: doc.save(self.output_pdf)
SaveIfModified_always(modified, file) == "written"

SaveIfModified(modified, file) == IF modified THEN "written" ELSE file

\* The detector outputs of one process_pdf run over n pages, at most
\* budget boxes in all, and the pages_data the run builds from them.
RedactBoxes == {b \in Boxes : b.class_id \in {1, 2}}

RECURSIVE DetectorRuns(_, _)
DetectorRuns(n, budget) ==
    IF n = 0 THEN { <<>> }
    ELSE UNION { { <<d>> \o rest : rest \in DetectorRuns(n - 1, budget - Len(d)) } :
                    d \in SeqsUpTo(RedactBoxes, budget) }

ProcessPdfPages(run) ==
    [p \in 1..Len(run) |-> ReorderDetections(ProcessDetectionResults(run[p]))]

\* process_pdf returning without having written the record.
RecordOfRun_unwritten(run) == [exists |-> FALSE, rows |-> <<>>]

RecordOfRun(run) ==
    [exists |-> TRUE, rows |-> SaveDetectionResults(ProcessPdfPages(run))]

\* The records process_pdf can write for a document of n pages.
RunRecords ==
    [n \in 1..MaxPages |-> {RecordOfRun(run) : run \in DetectorRuns(n, MaxRows)}]

InitRedact ==
    /\ num_pages \in 1..MaxPages
    /\ record \in {NoRecord} \cup {RecordOfRun(run) : run \in DetectorRuns(num_pages, MaxRows)}
    /\ rq_pc = "start"
    /\ via_endpoint = FALSE
    /\ pdf_exists \in BOOLEAN
    /\ \E size \in PageSizes : self_page_width = size[1] /\ self_page_height = size[2]
    /\ detect_runs = 0
    /\ csv_page_detections = <<>>
    /\ rd_page = 0
    /\ applied = <<>>
    /\ modifications_made = FALSE
    /\ output_pdf \in {"absent", "stale"}
    /\ ret = "none"
    /\ response = "none"

\* The handler saves the upload, builds the PDFProcessor and calls
\* remove_irrelevant_boxes.
EndpointRequest ==
    /\ rq_pc = "start"
    /\ pdf_exists' = TRUE
    /\ via_endpoint' = TRUE
    /\ rq_pc' = "validate"
    /\ UNCHANGED <<num_pages, record, self_page_width, self_page_height, detect_runs,
                   csv_page_detections, rd_page, applied, modifications_made,
                   output_pdf, ret, response>>
    /\ UNCHANGED notRedact

\* remove_irrelevant_boxes called on an existing PDFProcessor.
DirectCall ==
    /\ rq_pc = "start"
    /\ rq_pc' = "validate"
    /\ UNCHANGED <<num_pages, record, via_endpoint, pdf_exists, self_page_width,
                   self_page_height, detect_runs, csv_page_detections, rd_page,
                   applied, modifications_made, output_pdf, ret, response>>
    /\ UNCHANGED notRedact

\* validate_inputs failed: process_pdf regenerates the record and the
\* method calls itself again.
RegenerateRecord ==
    /\ rq_pc = "validate"
    /\ ~ValidateInputs
    /\ pdf_exists
    /\ record' \in RunRecords[num_pages]
    /\ detect_runs' = detect_runs + 1
    /\ rq_pc' = "validate"
    /\ UNCHANGED <<num_pages, via_endpoint, pdf_exists, self_page_width,
                   self_page_height, csv_page_detections, rd_page, applied,
                   modifications_made, output_pdf, ret, response>>
    /\ UNCHANGED notRedact

\* validate_inputs failed and process_pdf raised (no PDF to open, or the
\* detector or the page library failed): except -> return False.
RegenerateFails ==
    /\ rq_pc = "validate"
    /\ ~ValidateInputs
    /\ detect_runs' = detect_runs + 1
    /\ ret' = "False"
    /\ rq_pc' = "returned"
    /\ UNCHANGED <<num_pages, record, via_endpoint, pdf_exists, self_page_width,
                   self_page_height, csv_page_detections, rd_page, applied,
                   modifications_made, output_pdf, response>>
    /\ UNCHANGED notRedact

\* validate_inputs passed: open the PDF and read the CSV into page_detections.
ReadCsv ==
    /\ rq_pc = "validate"
    /\ ValidateInputs
    /\ csv_page_detections' = GroupByPage(record.rows)
    /\ modifications_made' = FALSE
    /\ applied' = [p \in 0..(num_pages - 1) |-> <<>>]
    /\ rd_page' = 0
    /\ rq_pc' = "pages"
    /\ UNCHANGED <<num_pages, record, via_endpoint, pdf_exists, self_page_width,
                   self_page_height, detect_runs, output_pdf, ret, response>>
    /\ UNCHANGED notRedact

\* One iteration of "for page_num in range(len(doc))".
RedactPage ==
    /\ rq_pc = "pages"
    /\ rd_page < num_pages
    /\ LET all_redactions ==
            IF rd_page \in DOMAIN csv_page_detections
            THEN AllRedactions(csv_page_detections[rd_page])
            ELSE <<>>
       IN  /\ applied' = [applied EXCEPT ![rd_page] = all_redactions]
           /\ modifications_made' = (modifications_made \/ all_redactions # <<>>)
    /\ rd_page' = rd_page + 1
    /\ UNCHANGED <<num_pages, record, rq_pc, via_endpoint, pdf_exists, self_page_width,
                   self_page_height, detect_runs, csv_page_detections, output_pdf,
                   ret, response>>
    /\ UNCHANGED notRedact

\* After the loop: save if modified, close, return True.
FinishRemove ==
    /\ rq_pc = "pages"
    /\ rd_page = num_pages
    /\ output_pdf' = SaveIfModified(modifications_made, output_pdf)
    /\ ret' = "True"
    /\ rq_pc' = "returned"
    /\ UNCHANGED <<num_pages, record, via_endpoint, pdf_exists, self_page_width,
                   self_page_height, detect_runs, csv_page_detections, rd_page,
                   applied, modifications_made, response>>
    /\ UNCHANGED notRedact

\* The handler's answer: FileResponse(output_pdf) when the call returned
\* True (whatever is at that path), HTTPException(500) otherwise.
Respond ==
    /\ rq_pc = "returned"
    /\ via_endpoint
    /\ response' = IF ret = "True"
                   THEN (IF output_pdf = "written" THEN "file_written"
                         ELSE IF output_pdf = "stale" THEN "file_stale"
                         ELSE "file_absent")
                   ELSE "http_500"
    /\ rq_pc' = "responded"
    /\ UNCHANGED <<num_pages, record, via_endpoint, pdf_exists, self_page_width,
                   self_page_height, detect_runs, csv_page_detections, rd_page,
                   applied, modifications_made, output_pdf, ret>>
    /\ UNCHANGED notRedact

NextRedact ==
    \/ EndpointRequest \/ DirectCall \/ RegenerateRecord \/ RegenerateFails
    \/ ReadCsv \/ RedactPage \/ FinishRemove \/ Respond

IdleLayoutLocals ==
    /\ pc = "idle"
    /\ page_num = 0
    /\ detected = <<>>
    /\ pages_data = <<>>
    /\ temp_images = {}
    /\ temp_dir = FALSE
    /\ result = "none"

InitRedactSpec == InitRedact /\ IdleLayoutLocals /\ IdleCall /\ IdleSection /\ IdleRefs /\ IdleDedup /\ IdleExtract /\ IdleTemp /\ IdleRows /\ IdleJoin /\ IdleEndpoint /\ IdleRemove /\ IdleRun
SpecRedact == InitRedactSpec /\ [][NextRedact]_vars

----------------------------------------------------------------------------
\* Properties of process_pdf (specification Spec).

RowsOfPage(rows, p) == SelectSeq(rows, LAMBDA row : row.page_number = p)

\* C1: for every page written by _save_detection_results the order values
\* of the page's rows are exactly 1..N, N the number of detections of the
\* page, each used once and assigned in the sequence _reorder_detections
\* returned; pages without detections contribute no row.
C1_OrderTotality ==
    record.exists =>
        /\ Len(record.rows) = SumLen(detected)
        /\ \A p \in 1..num_pages :
            LET rs == RowsOfPage(record.rows, p)
            IN  /\ Len(rs) = Len(detected[p])
                /\ {rs[k].order : k \in 1..Len(rs)} = 1..Len(detected[p])
                /\ \A k \in 1..Len(rs) :
                    /\ rs[k].order = k
                    /\ rs[k].class_id = pages_data[p][k].class_id
                    /\ <<rs[k].x0, rs[k].y0, rs[k].x1, rs[k].y1>>
                            = pages_data[p][k].coordinates

C1_Witness ==
    /\ record.exists
    /\ \E p \in 1..num_pages : Len(RowsOfPage(record.rows, p)) >= 3
    /\ \E p \in 1..num_pages : detected[p] = <<>>

\* The column _reorder_detections puts an element into, given the page
\* width and the number of columns it computed for the page.
ColumnOf(elem, page_width, num_columns) ==
    IF num_columns = 1 THEN 1
    ELSE IF num_columns = 2
         THEN (IF 2 * X0(elem) < page_width THEN 1 ELSE 2)
    ELSE IF 3 * X0(elem) < page_width THEN 1
    ELSE IF 3 * X0(elem) < 2 * page_width THEN 2
    ELSE 3

\* C4: two elements of a page with equal y0 that fall into the same column
\* keep their detector-output order in the output of _reorder_detections.
C4_StableTies ==
    \A p \in 1..Len(pages_data) :
        pages_data[p] # <<>> =>
            LET out == pages_data[p]
                page_width == PageWidth(detected[p])
                num_columns == DetectColumns(detected[p], page_width)
                col == [k \in 1..Len(out) |-> ColumnOf(out[k], page_width, num_columns)]
            IN  \A i, j \in 1..Len(out) :
                    (i < j /\ Y0(out[i]) = Y0(out[j]) /\ col[i] = col[j])
                        => out[i].id < out[j].id

\* A three-column page with a tie inside one column between boxes of
\* different x0, the one with the larger x0 detected first.
C4_Witness ==
    \E p \in 1..Len(pages_data) :
        /\ pages_data[p] # <<>>
        /\ DetectColumns(detected[p], PageWidth(detected[p])) = 3
        /\ \E i, j \in 1..Len(pages_data[p]) :
            /\ i < j
            /\ Y0(pages_data[p][i]) = Y0(pages_data[p][j])
            /\ X0(pages_data[p][i]) > X0(pages_data[p][j])
            /\ ColumnOf(pages_data[p][i], PageWidth(detected[p]), 3)
                    = ColumnOf(pages_data[p][j], PageWidth(detected[p]), 3)

C6_EmptyAndSingle ==
    /\ result # "raised"
    /\ Len(pages_data) = Len(detected)
    /\ \A p \in 1..Len(pages_data) :
        /\ detected[p] = <<>> => pages_data[p] = <<>>
        /\ Len(detected[p]) = 1 => pages_data[p] = detected[p]
        /\ (record.exists /\ detected[p] = <<>>)
                => RowsOfPage(record.rows, p) = <<>>
    /\ pc = "done" => (result = "returned" /\ record.exists)

C6_Witness ==
    /\ pc = "done"
    /\ result = "returned"
    /\ \E p \in 1..num_pages : detected[p] = <<>> /\ pages_data[p] = <<>>
    /\ \E p \in 1..num_pages : Len(detected[p]) = 1 /\ Len(pages_data[p]) = 1

----------------------------------------------------------------------------
\* Properties of the reading-order functions (specification SpecCall).

\* The band of a box of a two-band page: every left-band x0 is below every
\* right-band start.
InLeftBand(elem) == \A ra \in RightStarts : X0(elem) < ra

LeftBeforeRight(out) ==
    \A i, j \in 1..Len(out) :
        i < j => ~(~InLeftBand(out[i]) /\ InLeftBand(out[j]))

BandsSorted(out) ==
    \A i, j \in 1..Len(out) :
        (i < j /\ InLeftBand(out[i]) = InLeftBand(out[j]))
            => Y0(out[i]) <= Y0(out[j])

ReorderedTwoBandPage == called = "reorder" /\ Len(call_elements) = NumBoxes

\* The split line of _sort_two_columns separates the two bands.
BandsAstrideMiddle ==
    \A i \in 1..Len(call_elements) :
        InLeftBand(call_elements[i])
            <=> 2 * X0(call_elements[i]) < PageWidth(call_elements)

RECURSIVE SectionOf(_, _)
SectionOf(secs, k) ==
    IF k <= Len(Head(secs)) THEN 1
    ELSE 1 + SectionOf(Tail(secs), k - Len(Head(secs)))

\* C3 as stated: consecutive elements share a section only when the gap of
\* their y0 is strictly below the threshold (10% of the page height), so a
\* gap of exactly the threshold separates them.
C3_StrictGap ==
    called = "irregular" =>
        \A k \in 1..(Len(call_ordered) - 1) :
            SectionOf(call_sections, k) = SectionOf(call_sections, k + 1)
                => 10 * (Y0(call_ordered[k + 1]) - Y0(call_ordered[k]))
                        < PageHeight(call_elements)

\* C3 amended: consecutive elements share a section exactly when the gap of
\* their y0 is at most the threshold; a gap of exactly the threshold keeps
\* them together.
C3_GapWithinThreshold ==
    called = "irregular" =>
        \A k \in 1..(Len(call_ordered) - 1) :
            SectionOf(call_sections, k) = SectionOf(call_sections, k + 1)
                <=> 10 * (Y0(call_ordered[k + 1]) - Y0(call_ordered[k]))
                        <= PageHeight(call_elements)

C3_Witness ==
    /\ called = "irregular"
    /\ Len(call_sections) = 2
    /\ \E k \in 1..(Len(call_ordered) - 1) :
        /\ 10 * (Y0(call_ordered[k + 1]) - Y0(call_ordered[k]))
                = PageHeight(call_elements)
        /\ SectionOf(call_sections, k) = SectionOf(call_sections, k + 1)

----------------------------------------------------------------------------
\* Properties of remove_irrelevant_boxes and /remove-irrelevant/
\* (specification SpecRedact).

\* A row the claims call qualifying: Abandon class (2), confidence >= 0.2.
Qualifying(row) == row.class_id = 2 /\ row.confidence >= 2000

QualifyingRows(p) ==
    SelectSeq(RowsOfPage(record.rows, p + 1), Qualifying)

PagesDone == {p \in DOMAIN applied : p < rd_page}

\* C7: the rectangles redacted on a page are exactly those of its rows of
\* class 2 with confidence >= 0.2 (0.2000 included, 0.1999 excluded), one
\* per row and in row order; rows of other classes give none.
C7_RedactionThreshold ==
    \A p \in PagesDone :
        LET qual == QualifyingRows(p)
        IN  /\ Len(applied[p]) = Len(qual)
            /\ \A k \in 1..Len(qual) :
                applied[p][k] =
                    ScaleCoordinates(<<qual[k].x0, qual[k].y0, qual[k].x1, qual[k].y1>>,
                                     ImageDim(self_page_width),
                                     ImageDim(self_page_height))

C7_Witness ==
    \E p \in PagesDone :
        LET rows == RowsOfPage(record.rows, p + 1)
        IN  /\ \E i \in 1..Len(rows) : rows[i].class_id = 2 /\ rows[i].confidence = 2000
            /\ \E i \in 1..Len(rows) : rows[i].class_id = 2 /\ rows[i].confidence = 1999
            /\ \E i \in 1..Len(rows) : rows[i].class_id # 2 /\ rows[i].confidence > 2000
            /\ Len(applied[p]) = 1

\* C8: a page is redacted only if it has a qualifying row; when the call
\* returns True the output PDF has been written by it exactly if some page
\* was redacted; a call on valid inputs returns True, also when nothing
\* qualifies, and a call that returns False writes nothing.
C8_SaveIffRedacted ==
    /\ \A p \in PagesDone : applied[p] # <<>> => QualifyingRows(p) # <<>>
    /\ ret = "True" =>
        ( output_pdf = "written"
            <=> \E p \in 0..(num_pages - 1) : QualifyingRows(p) # <<>> )
    /\ ret = "False" => output_pdf # "written"
    /\ (rq_pc \in {"returned", "responded"} /\ detect_runs = 0) => ret = "True"

\* Two pages with rows: one redacted, one left untouched, output saved.
C8_Witness ==
    /\ ret = "True"
    /\ output_pdf = "written"
    /\ \E p, q \in PagesDone :
        /\ applied[p] # <<>>
        /\ applied[q] = <<>>
        /\ RowsOfPage(record.rows, q + 1) # <<>>

\* C9: whenever the handler takes its success branch (the call returned
\* True), the file it returns was written by that call.
C9_SuccessReturnsWrittenFile ==
    response \in {"file_written", "file_stale", "file_absent"}
        => response = "file_written"

\* ---- remove_irrelevant_boxes as a call that runs to its end ----

\* ---- Claims about the scaling to PDF coordinates (checked under SpecRedact) ----

\* A fraction <<numerator, denominator>> in lowest terms.
RECURSIVE GCD(_, _)
GCD(a, b) == IF b = 0 THEN a ELSE GCD(b, a % b)

Reduce(f) == LET g == GCD(f[1], f[2]) IN <<f[1] \div g, f[2] \div g>>

\* extract_text and extract_markdown: scale_x = pdf_width / (pdf_width *
\* 300 / 72), as a fraction.
ScaleFactor(pdf_dimension) ==
    Reduce(<<pdf_dimension * PdfDPI, pdf_dimension * DetectorDPI>>)

\* fitz.Rect(float(row['x0']) * scale_x, ...), each side kept as the
\* fraction <<numerator, denominator>> in 1/1000 point like ScaleCoordinates.
TextRect(coords, pdf_width, pdf_height) ==
    LET scale_x == ScaleFactor(pdf_width)
        scale_y == ScaleFactor(pdf_height)
    IN  [x0 |-> <<coords[1] * scale_x[1] * 1000, scale_x[2]>>,
         y0 |-> <<coords[2] * scale_y[1] * 1000, scale_y[2]>>,
         x1 |-> <<coords[3] * scale_x[1] * 1000, scale_x[2]>>,
         y1 |-> <<coords[4] * scale_y[1] * 1000, scale_y[2]>>]

\* Two fractions of the same value.
SameValue(f, g) == f[1] * g[2] = g[1] * f[2]

SameRect(r, s) ==
    /\ SameValue(r.x0, s.x0) /\ SameValue(r.y0, s.y0)
    /\ SameValue(r.x1, s.x1) /\ SameValue(r.y1, s.y1)

\* The page's size in pixels at 300 DPI is a whole number on both axes.
WholePixelPage ==
    /\ ImageDim(self_page_width) * PdfDPI * 1000 = self_page_width * DetectorDPI
    /\ ImageDim(self_page_height) * PdfDPI * 1000 = self_page_height * DetectorDPI

\* C25 as stated: the rectangle redacted for a box is the rectangle the
\* text and markdown extraction compute for the same box, the box times
\* 72/300, for every page size.  scale_coordinates divides by the image
\* size truncated by int(), which is 72/300 only on whole-pixel pages.
C25_SameRectangleOnAllPaths ==
    \A p \in PagesDone :
        \A k \in 1..Len(applied[p]) :
            LET row == QualifyingRows(p)[k]
            IN  SameRect(applied[p][k],
                         TextRect(<<row.x0, row.y0, row.x1, row.y1>>,
                                  self_page_width, self_page_height))

\* What holds: the paths agree on pages of a whole number of pixels (US
\* letter), and on every page the text path is the box times 72/300.
C25_SameRectangleOnWholePixelPages ==
    /\ WholePixelPage => C25_SameRectangleOnAllPaths
    /\ \A b \in Boxes :
          LET r == TextRect(b.coordinates, self_page_width, self_page_height)
          IN  SameValue(r.x1, <<b.coordinates[3] * PdfDPI * 1000, DetectorDPI>>)

\* An A4 page on which a box has been redacted.
C25_WitnessA4 ==
    /\ ~WholePixelPage
    /\ \E p \in PagesDone : applied[p] # <<>>

\* A US letter page on which a box has been redacted.
C25_WitnessLetter ==
    /\ WholePixelPage
    /\ \E p \in PagesDone : applied[p] # <<>>


\* The method is sequential code: a step that can be taken is taken.
SpecRedactLive == SpecRedact /\ WF_vars(NextRedact)

\* C18: a call of remove_irrelevant_boxes runs detection at most once; when
\* the inputs are still not valid after that run it returns False; and
\* every call comes to its end.
C18_OneRegenerationThenEnd ==
    /\ [](detect_runs <= 1)
    /\ []((detect_runs = 1 /\ rq_pc = "returned" /\ ~ValidateInputs) => ret = "False")
    /\ <>(rq_pc \in {"returned", "responded"})

\* A call that regenerated the record once and then succeeded.
C18_Witness ==
    /\ rq_pc = "returned"
    /\ detect_runs = 1
    /\ ret = "True"

\* A call whose one detection run failed.
C18_WitnessFailed ==
    /\ rq_pc = "returned"
    /\ detect_runs = 1
    /\ ~ValidateInputs
    /\ ret = "False"

\* ---------------------------------------------------------------------
\* Section extractor (src/src/extractor_helper.py).
\*
\* Texts are strings; Char(s, p) is the character at 0-based offset p and
\* Slice(s, a, b) is Python's s[a:b].  The regular expressions of
\* extract_section are kept as syntax trees and matched by Ends, which
\* lists the end offsets of all matches of a tree at an offset in the order
\* Python's backtracking matcher tries them (greedy repetition, ordered
\* alternation); the first element is the match `re` reports.
\* ---------------------------------------------------------------------

MinOf(S) == CHOOSE m \in S : \A n \in S : m <= n

Char(s, p) == SubSeq(s, p + 1, p + 1)

Slice(s, a, b) == SubSeq(s, a + 1, IF b < Len(s) THEN b ELSE Len(s))

UpperLetters == "ABCDEFGHIJKLMNOPQRSTUVWXYZ"

LowerLetters == "abcdefghijklmnopqrstuvwxyz"

\* re.IGNORECASE: characters are compared after case folding.
LowerMap ==
    [c \in {Char(UpperLetters, i) : i \in 0..25} |->
        Char(LowerLetters, CHOOSE i \in 0..25 : Char(UpperLetters, i) = c)]

Lower(c) == IF c \in DOMAIN LowerMap THEN LowerMap[c] ELSE c

Whitespace == {" ", "\n", "\t", "\r", "\f"}

Digits == {"0", "1", "2", "3", "4", "5", "6", "7", "8", "9"}

WordChars == {Char(LowerLetters, i) : i \in 0..25} \cup Digits \cup {"_"}

IsWordAt(s, p) == p >= 0 /\ p < Len(s) /\ Lower(Char(s, p)) \in WordChars

\* Syntax trees.
ReChr(cs) == [t |-> "chr", c |-> cs]

ReNot(cs) == [t |-> "not", c |-> cs]

ReSeq(xs) == [t |-> "seq", xs |-> xs]

ReAlt(xs) == [t |-> "alt", xs |-> xs]

ReStar(x) == [t |-> "star", x |-> x]

RePlus(x) == [t |-> "plus", x |-> x]

ReOpt(x) == [t |-> "opt", x |-> x]

ReWordBoundary == [t |-> "wb"]

\* A literal (re.escape of a term): one case-folded character per position.
ReLit(term) == ReSeq([i \in 1..Len(term) |-> ReChr({Lower(Char(term, i - 1))})])

RECURSIVE Ends(_, _, _)
RECURSIVE EndsFrom(_, _, _, _)
RECURSIVE EndsSeq(_, _, _, _)
RECURSIVE EndsAlt(_, _, _, _)

EndsFrom(re, s, starts, k) ==
    IF k > Len(starts) THEN <<>>
    ELSE Ends(re, s, starts[k]) \o EndsFrom(re, s, starts, k + 1)

EndsSeq(xs, s, starts, i) ==
    IF i > Len(xs) \/ starts = <<>> THEN starts
    ELSE EndsSeq(xs, s, EndsFrom(xs[i], s, starts, 1), i + 1)

EndsAlt(xs, s, p, i) ==
    IF i > Len(xs) THEN <<>>
    ELSE Ends(xs[i], s, p) \o EndsAlt(xs, s, p, i + 1)

Ends(re, s, p) ==
    CASE re.t = "chr" ->
            IF p < Len(s) /\ Lower(Char(s, p)) \in re.c THEN <<p + 1>> ELSE <<>>
      [] re.t = "not" ->
            IF p < Len(s) /\ Char(s, p) \notin re.c THEN <<p + 1>> ELSE <<>>
      [] re.t = "wb" ->
            IF IsWordAt(s, p - 1) # IsWordAt(s, p) THEN <<p>> ELSE <<>>
      [] re.t = "seq" -> EndsSeq(re.xs, s, <<p>>, 1)
      [] re.t = "alt" -> EndsAlt(re.xs, s, p, 1)
      [] re.t = "opt" -> Ends(re.x, s, p) \o <<p>>
      [] re.t = "star" ->
            LET Advances(e) == e > p
            IN  EndsFrom(re, s, SelectSeq(Ends(re.x, s, p), Advances), 1) \o <<p>>
      [] re.t = "plus" -> EndsFrom(ReStar(re.x), s, Ends(re.x, s, p), 1)

NoMatch == [start |-> -1, end |-> -1]

\* re.search(pattern, s[from:]) with offsets of s: the leftmost match.
SearchFrom(re, s, from) ==
    LET starts == {p \in from..Len(s) : Ends(re, s, p) # <<>>}
    IN  IF starts = {} THEN NoMatch
        ELSE [start |-> MinOf(starts), end |-> Ends(re, s, MinOf(starts))[1]]

Search(re, s) == SearchFrom(re, s, 0)

\* list(re.finditer(pattern, s)): successive non-overlapping matches (the
\* patterns here never match the empty string).
RECURSIVE FindIterFrom(_, _, _)
FindIterFrom(re, s, from) ==
    LET m == SearchFrom(re, s, from)
    IN  IF m = NoMatch THEN <<>> ELSE <<m>> \o FindIterFrom(re, s, m.end)

FindIter(re, s) == FindIterFrom(re, s, 0)

\* str.strip()
Strip(s) ==
    LET keep == {p \in 0..(Len(s) - 1) : Char(s, p) \notin Whitespace}
    IN  IF keep = {} THEN ""
        ELSE Slice(s, MinOf(keep), Max(keep) + 1)

\* Section term lists.  The module `sections` that defines them is not
\* among the repository's sources; each list is taken to hold the plain
\* name of its section, and the lists left out here are taken to be empty.
METHODS_TERMS == <<"Methods">>

RESULTS_TERMS == <<"Results">>

DISCUSSION_TERMS == <<"Discussion">>

REFERENCES_TERMS == <<"References">>

CONCLUSION == <<"Conclusion">>

all_section_terms ==
    METHODS_TERMS \o RESULTS_TERMS \o DISCUSSION_TERMS \o REFERENCES_TERMS
        \o CONCLUSION

\* ' '.join(term)
RECURSIVE SpacedLetters(_)
SpacedLetters(term) ==
    IF Len(term) <= 1 THEN term
    ELSE Char(term, 0) \o " " \o SpacedLetters(Slice(term, 1, Len(term)))

ReWs == ReStar(ReChr(Whitespace))

ReNewline == ReChr({"\n"})

ReNewlineOrColon == ReChr({"\n", ":"})

ReDigits == RePlus(ReChr(Digits))

ReDot == ReChr({"."})

\* \d+\.  |  \[?\d+\]?\.?  |  [IVXivx]+\.
ReNumberedAlternatives ==
    << ReSeq(<<ReDigits, ReDot>>),
       ReSeq(<<ReOpt(ReChr({"["})), ReDigits, ReOpt(ReChr({"]"})), ReOpt(ReDot)>>),
       ReSeq(<<RePlus(ReChr({"i", "v", "x"})), ReDot>>) >>

\* \d+\s*\|\s*
RePipePrefix == ReSeq(<<ReDigits, ReWs, ReChr({"|"}), ReWs>>)

TermsAlt(terms) == ReAlt([i \in 1..Len(terms) |-> ReLit(terms[i])])

SpacedTermsAlt(terms) ==
    ReAlt([i \in 1..Len(terms) |-> ReLit(SpacedLetters(terms[i]))])

\* The five heading patterns of the requested section, in source order.
section_patterns(section_terms) ==
    << ReSeq(<<ReNewline, ReWs, TermsAlt(section_terms), ReWs, ReNewlineOrColon>>),
       ReSeq(<<ReNewline, ReWs, SpacedTermsAlt(section_terms), ReWs,
               ReNewlineOrColon>>),
       ReSeq(<<ReNewline, ReWs, ReAlt(ReNumberedAlternatives), ReWs,
               TermsAlt(section_terms), ReWs, ReNewlineOrColon>>),
       ReSeq(<<ReNewline, ReWs, RePipePrefix, TermsAlt(section_terms), ReWs,
               ReNewlineOrColon>>),
       ReSeq(<<ReNewline, ReWs, TermsAlt(section_terms), ReWs, ReChr({":"}),
               ReStar(ReNot({"\n"}))>>) >>

InTerms(term, terms) == \E i \in 1..Len(terms) : terms[i] = term

OtherTerms(section_terms) ==
    LET NotRequested(term) == ~InTerms(term, section_terms)
    IN  SelectSeq(all_section_terms, NotRequested)

\* For every other term: \bterm\b and \bt e r m\b, in that order.
next_section_patterns(section_terms) ==
    LET others == OtherTerms(section_terms)
    IN  [k \in 1..(2 * Len(others)) |->
            IF k % 2 = 1
            THEN ReSeq(<<ReWordBoundary, ReLit(others[(k + 1) \div 2]),
                         ReWordBoundary>>)
            ELSE ReSeq(<<ReWordBoundary,
                         ReLit(SpacedLetters(others[k \div 2])),
                         ReWordBoundary>>)]

ReNextPrefix ==
    ReOpt(ReAlt(ReNumberedAlternatives \o <<RePipePrefix>>))

next_section_pattern(section_terms) ==
    ReSeq(<<ReNewline, ReWs, ReNextPrefix, ReWs,
            ReAlt(next_section_patterns(section_terms)), ReWs,
            ReNewlineOrColon>>)

next_inline_pattern(section_terms) ==
    ReSeq(<<ReNewline, ReWs, ReNextPrefix, ReWs,
            ReAlt(next_section_patterns(section_terms)), ReWs, ReChr({":"})>>)

\* section_matches: the matches of the five patterns, pattern by pattern,
\* then list.sort(key=start), which is stable.
RECURSIVE InsertByStart(_, _)
InsertByStart(sorted, m) ==
    IF sorted = <<>> THEN <<m>>
    ELSE IF sorted[Len(sorted)].start <= m.start THEN Append(sorted, m)
    ELSE Append(InsertByStart(SubSeq(sorted, 1, Len(sorted) - 1), m),
                sorted[Len(sorted)])

RECURSIVE SortByStart(_)
SortByStart(ms) ==
    IF ms = <<>> THEN <<>>
    ELSE InsertByStart(SortByStart(SubSeq(ms, 1, Len(ms) - 1)), ms[Len(ms)])

RECURSIVE AllPatternMatches(_, _, _)
AllPatternMatches(patterns, text, i) ==
    IF i > Len(patterns) THEN <<>>
    ELSE FindIter(patterns[i], text) \o AllPatternMatches(patterns, text, i + 1)

SectionMatches(text, section_terms) ==
    SortByStart(AllPatternMatches(section_patterns(section_terms), text, 1))

ImmediateWindow == 150

ImmediateLimit == 50

\* ImmediatelyFollowed with the limit itself counted as immediate.
ImmediatelyFollowed_inclusive(text, section_terms, m) ==
    LET text_after_match == Slice(text, m.end, m.end + ImmediateWindow)
        immediate_next_match ==
            Search(next_section_pattern(section_terms), text_after_match)
        immediate_next_inline ==
            Search(next_inline_pattern(section_terms), text_after_match)
    IN  \/ immediate_next_match # NoMatch
            /\ immediate_next_match.start <= ImmediateLimit
        \/ immediate_next_inline # NoMatch
            /\ immediate_next_inline.start <= ImmediateLimit

\* Lines 129-141: the occurrence is skipped when another section's heading
\* starts within the first 50 characters after the match.
ImmediatelyFollowed(text, section_terms, m) ==
    LET text_after_match == Slice(text, m.end, m.end + ImmediateWindow)
        immediate_next_match ==
            Search(next_section_pattern(section_terms), text_after_match)
        immediate_next_inline ==
            Search(next_inline_pattern(section_terms), text_after_match)
    IN  \/ immediate_next_match # NoMatch
            /\ immediate_next_match.start < ImmediateLimit
        \/ immediate_next_inline # NoMatch
            /\ immediate_next_inline.start < ImmediateLimit

\* Lines 144-165: the text of one occurrence that is not skipped.
SectionText(text, section_terms, m) ==
    LET remaining_text == Slice(text, m.end, Len(text))
        found_section ==
            Search(next_section_pattern(section_terms), remaining_text)
        found_inline ==
            Search(next_inline_pattern(section_terms), remaining_text)
        next_section_match ==
            IF found_section.start = 0 THEN NoMatch ELSE found_section
        next_inline_match ==
            IF found_inline.start = 0 THEN NoMatch ELSE found_inline
        section_end ==
            IF next_section_match # NoMatch /\ next_inline_match # NoMatch
            THEN m.end + (IF next_section_match.start < next_inline_match.start
                          THEN next_section_match.start
                          ELSE next_inline_match.start)
            ELSE IF next_section_match # NoMatch
            THEN m.end + next_section_match.start
            ELSE IF next_inline_match # NoMatch
            THEN m.end + next_inline_match.start
            ELSE 0
    IN  IF section_end # 0
        THEN Strip(Slice(text, m.start, section_end))
        ELSE Strip(Slice(text, m.start, Len(text)))

\* max(extracted_sections, key=len): the first of the longest.
LongestSection(extracted) ==
    IF extracted = <<>> THEN ""
    ELSE extracted[MinOf({i \in 1..Len(extracted) :
                            \A j \in 1..Len(extracted) :
                                Len(extracted[j]) <= Len(extracted[i])})]

RECURSIVE ExtractedSections(_, _, _, _)
ExtractedSections(text, section_terms, ms, i) ==
    IF i > Len(ms) THEN <<>>
    ELSE (IF ImmediatelyFollowed(text, section_terms, ms[i]) THEN <<>>
          ELSE <<SectionText(text, section_terms, ms[i])>>)
         \o ExtractedSections(text, section_terms, ms, i + 1)

extract_section(text, section_terms) ==
    LongestSection(ExtractedSections(text, section_terms,
                                     SectionMatches(text, section_terms), 1))

\* remove_references_section: text.find of the extracted section, then the
\* text without that occurrence.
Find(text, piece) ==
    LET at == {p \in 0..(Len(text) - Len(piece)) :
                  Slice(text, p, p + Len(piece)) = piece}
    IN  IF at = {} THEN -1 ELSE MinOf(at)

remove_references_section(text) ==
    LET references_section == extract_section(text, REFERENCES_TERMS)
        ref_start == Find(text, references_section)
    IN  IF references_section = "" THEN text
        ELSE IF ref_start = -1 THEN text
        ELSE Slice(text, 0, ref_start)
                \o Slice(text, ref_start + Len(references_section), Len(text))

\* ---- extract_section, step by step ----

\* Bounds of the texts.
MaxBody == 60
MaxBreaks == 2

RECURSIVE Breaks(_)
Breaks(n) == IF n = 0 THEN "" ELSE "\n" \o Breaks(n - 1)

\* Body text: the first n characters of two lines of prose that mention a
\* section name inside a line.
BodyProse == "We did X. We then measured Y,\nas the Results section will show below."

Body(n) == SubSeq(BodyProse, 1, n)

BodyLengths == {9, ImmediateLimit - 1, ImmediateLimit, MaxBody}

\* The texts: an optional opening, a Methods heading on its own line, body
\* text, a Results heading on its own line and an optional closing line.
DocParts ==
    [ prefix : {""} \cup {"..." \o Breaks(n) : n \in 1..MaxBreaks},
      heading : {"Methods", "METHODS"},
      heading_breaks : {Breaks(n) : n \in 1..MaxBreaks},
      body : {Body(n) : n \in BodyLengths},
      body_breaks : {Breaks(n) : n \in 1..MaxBreaks},
      next_heading : {"Results"},
      tail : {"", "\nWe found Y."} ]

TextOf(parts) ==
    parts.prefix \o parts.heading \o parts.heading_breaks \o parts.body
        \o parts.body_breaks \o parts.next_heading \o parts.tail

InitSection ==
    /\ doc_parts \in DocParts
    /\ doc_text = TextOf(doc_parts)
    /\ requested \in {METHODS_TERMS, RESULTS_TERMS}
    /\ sx_pc = "start"
    /\ section_matches = <<>>
    /\ sx_index = 1
    /\ extracted_sections = <<>>
    /\ section_result = ""

\* Lines 89-99: collect and sort the occurrences of the requested heading.
FindSectionMatches ==
    /\ sx_pc = "start"
    /\ section_matches' = SectionMatches(doc_text, requested)
    /\ sx_index' = 1
    /\ extracted_sections' = <<>>
    /\ sx_pc' = "loop"
    /\ UNCHANGED <<doc_text, doc_parts, requested, section_result>>
    /\ UNCHANGED notSection

\* Lines 126-141: `continue` on an occurrence that is immediately followed
\* by another section's heading.
SkipOccurrence ==
    /\ sx_pc = "loop"
    /\ sx_index <= Len(section_matches)
    /\ ImmediatelyFollowed(doc_text, requested, section_matches[sx_index])
    /\ sx_index' = sx_index + 1
    /\ UNCHANGED <<doc_text, doc_parts, requested, sx_pc, section_matches,
                   extracted_sections, section_result>>
    /\ UNCHANGED notSection

\* Lines 143-167: the occurrence's text is appended to extracted_sections.
KeepOccurrence ==
    /\ sx_pc = "loop"
    /\ sx_index <= Len(section_matches)
    /\ ~ImmediatelyFollowed(doc_text, requested, section_matches[sx_index])
    /\ extracted_sections' =
          Append(extracted_sections,
                 SectionText(doc_text, requested, section_matches[sx_index]))
    /\ sx_index' = sx_index + 1
    /\ UNCHANGED <<doc_text, doc_parts, requested, sx_pc, section_matches,
                   section_result>>
    /\ UNCHANGED notSection

\* Lines 169-173.
ReturnLongest ==
    /\ sx_pc = "loop"
    /\ sx_index > Len(section_matches)
    /\ section_result' = LongestSection(extracted_sections)
    /\ sx_pc' = "done"
    /\ UNCHANGED <<doc_text, doc_parts, requested, section_matches, sx_index,
                   extracted_sections>>
    /\ UNCHANGED notSection

NextSection ==
    FindSectionMatches \/ SkipOccurrence \/ KeepOccurrence \/ ReturnLongest

InitSectionSpec == InitSection /\ IdleLayout /\ IdleCall /\ IdleRedact /\ IdleRefs /\ IdleDedup /\ IdleExtract /\ IdleTemp /\ IdleRows /\ IdleJoin /\ IdleEndpoint /\ IdleRemove /\ IdleRun

SpecSection == InitSectionSpec /\ [][NextSection]_vars

\* ---- Claims about extract_section (checked under SpecSection) ----

\* Both headings stand on lines of their own: a line break precedes the
\* Methods heading and a line break follows the Results heading.
HeadingsOnOwnLines ==
    /\ doc_parts.prefix # ""
    /\ doc_parts.tail # ""

\* The Methods heading and its body, without the surrounding white space.
HeadingAndBody ==
    Strip(doc_parts.heading \o doc_parts.heading_breaks \o doc_parts.body)

MethodsReturned ==
    /\ sx_pc = "done"
    /\ requested = METHODS_TERMS
    /\ HeadingsOnOwnLines

\* C10 as stated: whenever a Methods heading on its own line is followed by
\* body text and a Results heading on its own line, extract_section returns
\* the heading and the body up to the Results heading.
C10_HeadingAndBodyAlways ==
    MethodsReturned => section_result = HeadingAndBody

\* C10 as amended: the heading and its body are returned when the Results
\* heading begins 50 or more characters after the Methods heading's line
\* break, and the empty string is returned when it begins earlier, as it
\* does in the text '...\n\nMethods\nWe did X.\n\nResults\nWe found Y.'.
C10_HeadingAndBodyFromFifty ==
    /\ MethodsReturned =>
          IF Len(doc_parts.body) >= ImmediateLimit
          THEN section_result = HeadingAndBody
          ELSE section_result = ""
    /\ ( /\ sx_pc = "done"
         /\ requested = METHODS_TERMS
         /\ doc_text = "...\n\nMethods\nWe did X.\n\nResults\nWe found Y." )
        => section_result = ""

\* A body of exactly 50 characters is returned with its heading.
C10_Witness ==
    /\ MethodsReturned
    /\ Len(doc_parts.body) = ImmediateLimit
    /\ section_result = HeadingAndBody
    /\ section_result # ""

\* ---- remove_references_section, step by step ----

\* Reference entries: the first n characters of two entries.
RefProse == "1. A et al. A long title of a paper, Journal, 2020.\n2. B et al. Another title."

RefBody(n) == SubSeq(RefProse, 1, n)

RefBodyLengths == {11, ImmediateLimit, MaxBody}

\* The texts: an opening (an introduction, or a piece that reads like a
\* references section but starts the text), a References heading on its own
\* line, reference entries and an optional Conclusion heading.
RefParts ==
    [ opening : {"Intro\n..."}
                    \cup {"References\n" \o RefBody(n) : n \in RefBodyLengths},
      breaks : {Breaks(n) : n \in 1..MaxBreaks},
      heading : {"References"},
      body : {RefBody(n) : n \in RefBodyLengths},
      closing : {"", "\n\nConclusion", "\n\nConclusion\nThe end."} ]

RefTextOf(parts) ==
    parts.opening \o parts.breaks \o parts.heading \o "\n" \o parts.body
        \o parts.closing

\* Line 198: remove_references_section calls extract_section(text,
\* REFERENCES_TERMS).
InitRefs ==
    /\ doc_parts \in RefParts
    /\ doc_text = RefTextOf(doc_parts)
    /\ requested = REFERENCES_TERMS
    /\ sx_pc = "start"
    /\ section_matches = <<>>
    /\ sx_index = 1
    /\ extracted_sections = <<>>
    /\ section_result = ""
    /\ refs_pc = "extracting"
    /\ refs_result = ""

\* Lines 200-201 and 206-207: nothing was found, the text is returned.
ReturnTextUnchanged ==
    /\ refs_pc = "extracting"
    /\ sx_pc = "done"
    /\ \/ section_result = ""
       \/ Find(doc_text, section_result) = -1
    /\ refs_result' = doc_text
    /\ refs_pc' = "done"
    /\ UNCHANGED notRefs

\* Lines 204-211: the first occurrence of the section's text is cut out.
RemoveFoundSection ==
    /\ refs_pc = "extracting"
    /\ sx_pc = "done"
    /\ section_result # ""
    /\ Find(doc_text, section_result) # -1
    /\ LET ref_start == Find(doc_text, section_result)
       IN  refs_result' =
              Slice(doc_text, 0, ref_start)
                \o Slice(doc_text, ref_start + Len(section_result), Len(doc_text))
    /\ refs_pc' = "done"
    /\ UNCHANGED notRefs

NextRefs ==
    \/ FindSectionMatches
    \/ SkipOccurrence
    \/ KeepOccurrence
    \/ ReturnLongest
    \/ ReturnTextUnchanged
    \/ RemoveFoundSection

InitRefsSpec == InitRefs /\ IdleLayout /\ IdleCall /\ IdleRedact /\ IdleDedup /\ IdleExtract /\ IdleTemp /\ IdleRows /\ IdleJoin /\ IdleEndpoint /\ IdleRemove /\ IdleRun

SpecRefs == InitRefsSpec /\ [][NextRefs]_vars

\* ---- Claims about remove_references_section (checked under SpecRefs) ----

\* C11: 'Intro\n...\n\nReferences\n1. A et al.\n\nConclusion' comes back as
\* 'Intro\n...\n\n\n\nConclusion': the References heading and its entries
\* are removed and the Conclusion heading that ends the text is kept.
C11_ConclusionKept ==
    ( /\ refs_pc = "done"
      /\ doc_text = "Intro\n...\n\nReferences\n1. A et al.\n\nConclusion" )
        => refs_result = "Intro\n...\n\n\n\nConclusion"

\* C14: exactly the span that extract_section located, the References
\* heading of the text and what the section holds, is deleted and
\* everything before and after it is kept; without a References section
\* the text is returned unchanged.
C14_LocatedSpanRemoved ==
    refs_pc = "done" =>
        LET before == doc_parts.opening \o doc_parts.breaks
        IN  IF section_result = ""
            THEN refs_result = doc_text
            ELSE refs_result =
                    before \o Slice(doc_text, Len(before) + Len(section_result),
                                    Len(doc_text))

\* C14 for texts whose opening is not a copy of the located section.
C14_NoEarlierCopy ==
    ~(\E n \in RefBodyLengths : doc_parts.opening = "References\n" \o RefBody(n))
        => C14_LocatedSpanRemoved

\* ---- extract_section on texts with several candidate headings ----

\* Bound: the number of Methods headings in a text.
MaxOccurrences == 2

\* A Methods heading and what follows it:
\*   "next_line"  a Results heading on the very next line;
\*   "short"      a body of 9 characters, then a Results heading;
\*   "long"       a body of 50 characters or more, then a Results heading;
\*   "last"       a body of 50 characters or more that ends the text.
OccurrenceKinds == {"next_line", "short", "long", "last"}

ResultsSection == "\nResults\nWe found Y.\n"

Occurrence(kind, body_length) ==
    CASE kind = "next_line" -> "\nMethods" \o ResultsSection
      [] kind = "short" -> "\nMethods\n" \o Body(9) \o ResultsSection
      [] kind = "long" -> "\nMethods\n" \o Body(body_length) \o ResultsSection
      [] kind = "last" -> "\nMethods\n" \o Body(body_length)

RECURSIVE Occurrences(_, _)
Occurrences(kinds, body_length) ==
    IF kinds = <<>> THEN ""
    ELSE Occurrence(Head(kinds), body_length)
            \o Occurrences(Tail(kinds), body_length)

\* "last" can only be the last occurrence of a text.
CandidateParts ==
    [ kinds : {ks \in SeqsUpTo(OccurrenceKinds, MaxOccurrences) :
                  \A i \in 1..(Len(ks) - 1) : ks[i] # "last"},
      body_length : {ImmediateLimit, MaxBody} ]

CandidateTextOf(parts) == "Title\n" \o Occurrences(parts.kinds, parts.body_length)

InitCandidates ==
    /\ doc_parts \in CandidateParts
    /\ doc_text = CandidateTextOf(doc_parts)
    /\ requested \in {METHODS_TERMS, RESULTS_TERMS}
    /\ sx_pc = "start"
    /\ section_matches = <<>>
    /\ sx_index = 1
    /\ extracted_sections = <<>>
    /\ section_result = ""

InitCandidatesSpec == InitCandidates /\ IdleLayout /\ IdleCall /\ IdleRedact /\ IdleRefs /\ IdleDedup /\ IdleExtract /\ IdleTemp /\ IdleRows /\ IdleJoin /\ IdleEndpoint /\ IdleRemove /\ IdleRun

SpecCandidates == InitCandidatesSpec /\ [][NextSection]_vars

\* ---- Claims about candidate headings (checked under SpecCandidates) ----

\* An occurrence whose next heading of another section begins within the
\* first 50 characters after it.
Degenerate(kind) == kind \in {"next_line", "short"}

Surviving(kind) == ~Degenerate(kind)

MethodsCandidatesDone ==
    /\ sx_pc = "done"
    /\ requested = METHODS_TERMS

\* C12: every Methods heading whose next other heading begins within 50
\* characters is discarded, also when that heading is on the very next
\* line: only the other occurrences contribute a section, and the result
\* is empty when every occurrence is of that kind.
C12_NearHeadingDiscarded ==
    MethodsCandidatesDone =>
        /\ Len(extracted_sections) = Len(SelectSeq(doc_parts.kinds, Surviving))
        /\ SelectSeq(doc_parts.kinds, Surviving) = <<>> => section_result = ""

\* C13: of two Methods headings, one followed by another heading within 50
\* characters and one followed by a real body, the span of the second is
\* returned (its heading and body up to the next other heading or the end
\* of the text); with no surviving candidate the result is empty.
C13_LegitimateSpanReturned ==
    MethodsCandidatesDone =>
        /\ ( /\ Len(doc_parts.kinds) = 2
             /\ Len(SelectSeq(doc_parts.kinds, Degenerate)) = 1 )
            => section_result = Strip("Methods\n" \o Body(doc_parts.body_length))
        /\ extracted_sections = <<>> => section_result = ""

\* C12 and C13 without the "next_line" kind (what the code does achieve).
C12_ShortBodyDiscarded ==
    (\A i \in 1..Len(doc_parts.kinds) : doc_parts.kinds[i] # "next_line")
        => C12_NearHeadingDiscarded

C13_ShortBodyOmitted ==
    (\A i \in 1..Len(doc_parts.kinds) : doc_parts.kinds[i] # "next_line")
        => C13_LegitimateSpanReturned

\* ---------------------------------------------------------------------
\* remove_duplicate_pargraphs (src/src/extractor_helper.py, lines 9-28).
\* ---------------------------------------------------------------------

\* text.split('\n')
RECURSIVE SplitLines(_)
SplitLines(text) ==
    LET breaks == {p \in 0..(Len(text) - 1) : Char(text, p) = "\n"}
    IN  IF breaks = {} THEN <<text>>
        ELSE <<Slice(text, 0, MinOf(breaks))>>
                \o SplitLines(Slice(text, MinOf(breaks) + 1, Len(text)))

\* JoinLines with an empty line put between the lines.
RECURSIVE JoinLines_spaced(_)
JoinLines_spaced(lines) ==
    IF Len(lines) = 0 THEN ""
    ELSE IF Len(lines) = 1 THEN lines[1]
    ELSE lines[1] \o "\n\n" \o JoinLines_spaced(Tail(lines))

\* '\n'.join(paragraphs)
RECURSIVE JoinLines(_)
JoinLines(lines) ==
    IF Len(lines) = 0 THEN ""
    ELSE IF Len(lines) = 1 THEN lines[1]
    ELSE lines[1] \o "\n" \o JoinLines(Tail(lines))

\* list.index(p): the 1-based position of the first element equal to p.
FirstIndex(lines, p) == MinOf({j \in 1..Len(lines) : lines[j] = p})

\* KeepsLine without the exemption of section terms.
KeepsLine_noterms(lines, i) ==
    \/ Strip(lines[i]) = ""
    \/ FirstIndex(lines, lines[i]) = i

\* The condition of the comprehension of lines 24-25.
KeepsLine(lines, i) ==
    \/ Strip(lines[i]) = ""
    \/ InTerms(Strip(lines[i]), all_section_terms)
    \/ FirstIndex(lines, lines[i]) = i

RECURSIVE KeptLines(_, _)
KeptLines(lines, i) ==
    IF i > Len(lines) THEN <<>>
    ELSE (IF KeepsLine(lines, i) THEN <<lines[i]>> ELSE <<>>)
            \o KeptLines(lines, i + 1)

remove_duplicate_pargraphs(text) == JoinLines(KeptLines(SplitLines(text), 1))

\* Bound: the number of lines of a text.
MaxLines == 4

\* Lines: blank ones, a section term with and without white space around
\* it, and paragraphs that differ in white space only.
LineKinds == {"", " ", "Methods", "Methods ", "A b.", " A b.", "C d."}

DedupTexts == {JoinLines(ls) : ls \in SeqsUpTo(LineKinds, MaxLines) \ {<<>>}}

InitDedup ==
    /\ dd_text \in DedupTexts
    /\ dd_pc = 0
    /\ dd_once = ""
    /\ dd_twice = ""

RemoveDuplicates ==
    /\ dd_pc = 0
    /\ dd_once' = remove_duplicate_pargraphs(dd_text)
    /\ dd_pc' = 1
    /\ UNCHANGED <<dd_text, dd_twice>>
    /\ UNCHANGED notDedup

RemoveDuplicatesAgain ==
    /\ dd_pc = 1
    /\ dd_twice' = remove_duplicate_pargraphs(dd_once)
    /\ dd_pc' = 2
    /\ UNCHANGED <<dd_text, dd_once>>
    /\ UNCHANGED notDedup

NextDedup == RemoveDuplicates \/ RemoveDuplicatesAgain

InitDedupSpec == InitDedup /\ IdleLayout /\ IdleCall /\ IdleRedact /\ IdleSection /\ IdleRefs /\ IdleExtract /\ IdleTemp /\ IdleRows /\ IdleJoin /\ IdleEndpoint /\ IdleRemove /\ IdleRun

SpecDedup == InitDedupSpec /\ [][NextDedup]_vars

\* ---- Claims about remove_duplicate_pargraphs (checked under SpecDedup) ----

\* C15: applying remove_duplicate_pargraphs to its own result changes
\* nothing.
C15_Idempotent == dd_pc = 2 => dd_twice = dd_once

\* A text that loses a duplicate line in the first application.
C15_Witness ==
    /\ dd_pc = 2
    /\ dd_once # dd_text
    /\ dd_twice = dd_once

\* The lines of ls chosen by a condition on their position, in order.
RECURSIVE LinesWhere(_, _, _)
LinesWhere(Keeps(_), ls, i) ==
    IF i > Len(ls) THEN <<>>
    ELSE (IF Keeps(i) THEN <<ls[i]>> ELSE <<>>) \o LinesWhere(Keeps, ls, i + 1)

HasEarlierCopy(ls, i) == \E j \in 1..(i - 1) : ls[j] = ls[i]

IsBlank(line) == \A p \in 0..(Len(line) - 1) : Char(line, p) \in Whitespace

IsSectionTerm(line) ==
    \E k \in 1..Len(all_section_terms) : Strip(line) = all_section_terms[k]

MaxExtractRows == 2

ExtractOps == {"figures", "tables", "text", "markdown"}

FigureClass == 3

TableClass == 5

\* float(row['confidence']) > 0.5, in 1e-4 units
TextConfidence == 5000

\* Detector outputs read by the extraction operations: a title, a text
\* block whose confidence is exactly 0.5, an abandoned block, a figure and
\* a table.
ExtractBoxes ==
    { [class_id |-> 0, confidence |-> 55550, coordinates |-> <<7, 1, 13, 3>>],
      [class_id |-> 1, confidence |-> 50000, coordinates |-> <<1, 1, 7, 3>>],
      [class_id |-> 2, confidence |-> 20000, coordinates |-> <<0, 1, 6, 3>>],
      [class_id |-> 3, confidence |-> 19996, coordinates |-> <<14, 0, 20, 2>>],
      [class_id |-> 5, confidence |-> 80000, coordinates |-> <<0, 4, 20, 8>>] }

RECURSIVE ExtractRuns(_, _)
ExtractRuns(n, budget) ==
    IF n = 0 THEN { <<>> }
    ELSE UNION { { <<d>> \o rest : rest \in ExtractRuns(n - 1, budget - Len(d)) } :
                    d \in SeqsUpTo(ExtractBoxes, budget) }

\* if not Path(results_csv).exists(), with the test left out.
NeedsDetection_always(rec) == TRUE

\* if not Path(results_csv).exists()
NeedsDetection(rec) == ~rec.exists

\* The row filter of each operation (lines 238, 313, 393 and 507).
KeepsRow(op, row) ==
    CASE op = "figures" -> row.class_id = FigureClass
      [] op = "tables" -> row.class_id = TableClass
      [] op = "text" -> row.class_id \in {0, 1} /\ row.confidence > TextConfidence
      [] op = "markdown" -> row.class_id # AbandonClass

RowsKept(op, rows) == SelectSeq(rows, LAMBDA row : KeepsRow(op, row))

\* extract_text and extract_markdown open the PDF before they read the
\* record; extract_figures and extract_tables read the record first.
OpensPdfFirst(op) == op \in {"text", "markdown"}

InitExtract ==
    /\ num_pages \in 1..MaxPages
    /\ record \in {NoRecord}
            \cup {RecordOfRun(run) : run \in ExtractRuns(num_pages, MaxExtractRows)}
    /\ ex_pc = "start"
    /\ ex_op \in ExtractOps
    /\ ex_pdf_exists \in BOOLEAN
    /\ ex_had_record = record.exists
    /\ ex_detect_runs = 0
    /\ ex_rows = <<>>
    /\ ex_result = <<>>

\* The record is missing and process_pdf writes it.
DetectMissingRecord ==
    /\ ex_pc = "start"
    /\ NeedsDetection(record)
    /\ ex_pdf_exists
    /\ \E run \in ExtractRuns(num_pages, MaxExtractRows) : record' = RecordOfRun(run)
    /\ ex_detect_runs' = ex_detect_runs + 1
    /\ ex_pc' = "try"
    /\ UNCHANGED <<num_pages, ex_op, ex_pdf_exists, ex_had_record, ex_rows, ex_result>>
    /\ UNCHANGED notExtract

\* The record is missing and process_pdf raises (no PDF to open, or the
\* detector or the page library failed): the call is outside the try, so
\* the operation raises as well.
DetectionRaises ==
    /\ ex_pc = "start"
    /\ NeedsDetection(record)
    /\ ex_detect_runs' = ex_detect_runs + 1
    /\ ex_pc' = "raised"
    /\ UNCHANGED <<num_pages, record, ex_op, ex_pdf_exists, ex_had_record, ex_rows,
                   ex_result>>
    /\ UNCHANGED notExtract

\* The record is there: no detection.
RecordFound ==
    /\ ex_pc = "start"
    /\ ~NeedsDetection(record)
    /\ ex_pc' = "try"
    /\ UNCHANGED <<num_pages, record, ex_op, ex_pdf_exists, ex_had_record,
                   ex_detect_runs, ex_rows, ex_result>>
    /\ UNCHANGED notExtract

\* fitz.open fails before the record is read: except -> "" is returned.
OpenPdfFails ==
    /\ ex_pc = "try"
    /\ OpensPdfFirst(ex_op)
    /\ ~ex_pdf_exists
    /\ ex_result' = <<>>
    /\ ex_pc' = "returned"
    /\ UNCHANGED <<num_pages, record, ex_op, ex_pdf_exists, ex_had_record,
                   ex_detect_runs, ex_rows>>
    /\ UNCHANGED notExtract

\* The rows of the operation's classes are read from the record.
ReadRows ==
    /\ ex_pc = "try"
    /\ OpensPdfFirst(ex_op) => ex_pdf_exists
    /\ ex_rows' = RowsKept(ex_op, record.rows)
    /\ ex_pc' = "rows"
    /\ UNCHANGED <<num_pages, record, ex_op, ex_pdf_exists, ex_had_record,
                   ex_detect_runs, ex_result>>
    /\ UNCHANGED notExtract

\* The output is built from the rows; extract_figures and extract_tables
\* open the PDF only now, and return [] when that fails.
BuildOutput ==
    /\ ex_pc = "rows"
    /\ ex_result' = IF ex_pdf_exists THEN ex_rows ELSE <<>>
    /\ ex_pc' = "returned"
    /\ UNCHANGED <<num_pages, record, ex_op, ex_pdf_exists, ex_had_record,
                   ex_detect_runs, ex_rows>>
    /\ UNCHANGED notExtract

NextExtract ==
    \/ DetectMissingRecord \/ DetectionRaises \/ RecordFound
    \/ OpenPdfFails \/ ReadRows \/ BuildOutput

InitExtractSpec == InitExtract /\ IdleLayoutLocals /\ IdleCall /\ IdleRedact /\ IdleSection /\ IdleRefs /\ IdleDedup /\ IdleTemp /\ IdleRows /\ IdleJoin /\ IdleEndpoint /\ IdleRemove /\ IdleRun

SpecExtract == InitExtractSpec /\ [][NextExtract]_vars

\* ---- Claims about the extraction operations (checked under SpecExtract) ----

ExtractionPastCheck == ex_pc \in {"try", "rows", "returned", "raised"}

ExtractionHasRead == ex_pc \in {"rows", "returned"} /\ ex_rows # <<>>

\* C17: an extraction operation runs detection exactly when the record is
\* missing as it starts: never when the record is there, and once, before
\* any row is read, when it is missing.
C17_DetectionIffRecordMissing ==
    /\ ex_had_record => ex_detect_runs = 0
    /\ (~ex_had_record /\ ExtractionPastCheck) => ex_detect_runs = 1
    /\ ex_pc = "start" => (ex_detect_runs = 0 /\ ex_rows = <<>>)
    /\ ex_detect_runs <= 1

\* An operation that started without a record and has read rows of the
\* record that its one detection run wrote.
C17_Witness ==
    /\ ~ex_had_record
    /\ ExtractionHasRead
    /\ ex_detect_runs = 1
    /\ record.exists

----------------------------------------------------------------------------
\* ---- The detection record over all its writers and readers ----
\*
\* process_pdf (doc_layout.py) is the only code that writes the record.
\* It runs on its own, or from remove_irrelevant_boxes and the four
\* extraction operations when they find no record.  The specification
\* below takes the three together: a behaviour is one process_pdf run, one
\* redaction or one extraction.

InitRecordSpec == Init \/ InitRedactSpec \/ InitExtractSpec

NextRecord == NextLayout \/ NextRedact \/ NextExtract

SpecRecord == InitRecordSpec /\ [][NextRecord]_vars

\* A process_pdf run has ended: the run itself, or the one a redaction or
\* an extraction started.
ProcessPdfFinished == pc = "done" \/ detect_runs > 0 \/ ex_detect_runs > 0

\* C19 as stated: every process_pdf run writes the record (exactly once),
\* after all its pages, and nothing downstream writes an existing record.
\* A run that raises has ended and has written nothing.
C19_EveryRunWrites == ProcessPdfFinished => record.exists

\* C19: the record is written at most once per process_pdf run: exactly
\* once, after all pages have been detected and reordered, by a run that
\* returns, and not at all by a run that raises; a redaction or an
\* extraction never writes to or modifies a record that already exists.
C19_WrittenOnceByReturningRun ==
    /\ [][record.exists => record' = record]_vars
    /\ [][record' # record =>
            /\ record'.exists
            /\ pc # "idle" =>
                 /\ page_num = num_pages
                 /\ Len(pages_data) = num_pages
                 /\ record'.rows = SaveDetectionResults(pages_data)
                 /\ result' = "returned"]_vars
    /\ [](pc = "done" => (record.exists <=> result = "returned"))
    /\ [](ex_detect_runs > 0 => (record.exists <=> ex_pc # "raised"))
    /\ [](ret = "True" => record.exists)

\* A two-page run has returned and has written a record with rows.
C19_Witness ==
    /\ pc = "done"
    /\ result = "returned"
    /\ num_pages = MaxPages
    /\ record.exists
    /\ record.rows # <<>>

\* An extraction has read rows of a record that was there when it started.
C19_WitnessDownstream ==
    /\ ex_had_record
    /\ ExtractionHasRead
    /\ ex_detect_runs = 0

\* The run an extraction started has raised and has left no record.
C19_WitnessRaised == ex_pc = "raised" /\ ex_detect_runs = 1 /\ ~record.exists

----------------------------------------------------------------------------
\* ---- The temporary files of process_pdf, statement by statement ----
\*
\* The same run as above with the page loop opened up: pix.save writes
\* temp_page_N.png, the detector and the annotation read it,
\* temp_image_path.unlink() removes it, and the finally clause calls
\* _cleanup_temp_dir, which swallows a failure of shutil.rmtree.

\* temp_image_path.unlink(), left out.
UnlinkImage_kept(images, page) == images

\* temp_image_path.unlink()
UnlinkImage(images, page) == images \ {page}

InitTemp ==
    /\ InitLayout
    /\ cleanup_failed = FALSE

\* temp_dir.mkdir succeeded and _get_pdf_dimensions or fitz.open raised.
OpenRaises ==
    /\ pc = "start"
    /\ temp_dir' = TRUE
    /\ result' = "raised"
    /\ pc' = "finally"
    /\ UNCHANGED <<num_pages, page_num, detected, pages_data, temp_images, record>>
    /\ UNCHANGED <<cleanup_failed, notTemp>>

\* pix.save(str(temp_image_path))
SavePageImage ==
    /\ pc = "loop"
    /\ page_num < num_pages
    /\ temp_images' = temp_images \cup {page_num + 1}
    /\ pc' = "image"
    /\ UNCHANGED <<num_pages, page_num, detected, pages_data, temp_dir, record, result>>
    /\ UNCHANGED <<cleanup_failed, notTemp>>

\* predict, _process_detection_results, _reorder_detections, the
\* annotations and temp_image_path.unlink(); _reorder_detections may raise.
DetectPage ==
    /\ pc = "image"
    /\ \E det_res \in SeqsUpTo(Boxes, MaxDet - SumLen(detected)) :
         LET page_detections == ProcessDetectionResults(det_res)
         IN  IF ReorderRaises(page_detections)
             THEN /\ result' = "raised"
                  /\ pc' = "finally"
                  /\ detected' = Append(detected, page_detections)
                  /\ UNCHANGED <<pages_data, page_num, temp_images>>
             ELSE /\ pages_data' = Append(pages_data, ReorderDetections(page_detections))
                  /\ detected' = Append(detected, page_detections)
                  /\ temp_images' = UnlinkImage(temp_images, page_num + 1)
                  /\ page_num' = page_num + 1
                  /\ pc' = "loop"
                  /\ UNCHANGED result
    /\ UNCHANGED <<num_pages, temp_dir, record>>
    /\ UNCHANGED <<cleanup_failed, notTemp>>

\* The detector or the page library raised while the image was there.
PageRaises ==
    /\ pc = "image"
    /\ result' = "raised"
    /\ pc' = "finally"
    /\ UNCHANGED <<num_pages, page_num, detected, pages_data, temp_images, temp_dir,
                   record>>
    /\ UNCHANGED <<cleanup_failed, notTemp>>

\* pdf_document.save, _save_detection_results, return.
SaveResults ==
    /\ pc = "loop"
    /\ page_num = num_pages
    /\ record' = [exists |-> TRUE, rows |-> SaveDetectionResults(pages_data)]
    /\ result' = "returned"
    /\ pc' = "finally"
    /\ UNCHANGED <<num_pages, page_num, detected, pages_data, temp_images, temp_dir>>
    /\ UNCHANGED <<cleanup_failed, notTemp>>

\* finally: _cleanup_temp_dir, shutil.rmtree succeeded.
CleanupTempDir ==
    /\ pc = "finally"
    /\ temp_images' = {}
    /\ temp_dir' = FALSE
    /\ pc' = "done"
    /\ UNCHANGED <<num_pages, page_num, detected, pages_data, record, result>>
    /\ UNCHANGED <<cleanup_failed, notTemp>>

\* finally: _cleanup_temp_dir, shutil.rmtree raised after removing some of
\* the files; the exception is logged and swallowed.
CleanupFails ==
    /\ pc = "finally"
    /\ temp_images' \in SUBSET temp_images
    /\ cleanup_failed' = TRUE
    /\ pc' = "done"
    /\ UNCHANGED <<num_pages, page_num, detected, pages_data, temp_dir, record, result>>
    /\ UNCHANGED notTemp

NextTemp ==
    \/ ProcessPdfOpen \/ OpenRaises \/ SavePageImage \/ DetectPage \/ PageRaises
    \/ SaveResults \/ CleanupTempDir \/ CleanupFails

InitTempSpec == InitTemp /\ IdleCall /\ IdleRedact /\ IdleSection /\ IdleRefs /\ IdleDedup /\ IdleExtract /\ IdleRows /\ IdleJoin /\ IdleEndpoint /\ IdleRemove /\ IdleRun

SpecTemp == InitTempSpec /\ [][NextTemp]_vars

\* C20: during process_pdf at most one temporary page image exists at any
\* time, an image is written only when no other image is there, and when
\* the run has finished, by returning or by raising on any page, the
\* temporary directory and its images are gone unless the removal failed.
C20_OneImageThenNone ==
    /\ [](Cardinality(temp_images) <= 1)
    /\ [](temp_images # {} => temp_dir /\ temp_images = {page_num + 1})
    /\ [][temp_images' \ temp_images # {} => temp_images = {}]_vars
    /\ []((pc = "done" /\ ~cleanup_failed) => (~temp_dir /\ temp_images = {}))

\* The run raised on its last page, whose image was there, after earlier
\* pages had been processed, and the cleanup removed the directory.
C20_Witness ==
    /\ pc = "done"
    /\ result = "raised"
    /\ num_pages = MaxPages
    /\ page_num = MaxPages - 1
    /\ ~cleanup_failed
    /\ ~temp_dir
    /\ temp_images = {}

\* The image of the second page exists, the first page's is gone.
C20_WitnessSecondImage == pc = "image" /\ temp_images = {2}

----------------------------------------------------------------------------
\* ---- The record's readers over malformed rows and failing pages ----
\*
\* remove_irrelevant_boxes and the four extraction operations of
\* pdf_processor.py, each as: read the record, visit the kept rows in the
\* operation's order, return.  A row carries the field that int() or
\* float() cannot parse (bad), or a page_number past the document; a page
\* may raise in get_pixmap, crop, get_text or add_redact_annot.  The output
\* is abstracted to the ids of the rows that contributed to it.

MaxBadRows == 2

RowOps == {"redact", "figures", "tables", "text", "markdown"}

BadFields == {"page_number", "class_id", "confidence", "bbox"}

RowClasses == {1, AbandonClass, FigureClass, TableClass}

\* Rows without their position: well-formed ones on every page and one
\* page past the end, malformed ones on page 1.
RowKinds(n) ==
    { [page_number |-> p, class_id |-> c, confidence |-> 90000, bad |-> "none"] :
        p \in 1..(n + 1), c \in RowClasses }
    \cup
    { [page_number |-> 1, class_id |-> c, confidence |-> 90000, bad |-> b] :
        c \in RowClasses, b \in BadFields }

WithIds(kinds) ==
    [i \in 1..Len(kinds) |->
        [id |-> i, page_number |-> kinds[i].page_number, class_id |-> kinds[i].class_id,
         confidence |-> kinds[i].confidence, bad |-> kinds[i].bad]]

\* The row filter of each operation; remove_irrelevant_boxes keeps every
\* row at this point.
KeepsItem(op, row) == IF op = "redact" THEN TRUE ELSE KeepsRow(op, row)

\* Whether reading this row raises: the conversions each read loop makes.
\* redact: int(row.get("page_number")).  figures, tables: int(class_id),
\* then int(page_number) and float(x0..y1) for rows of the class.  text:
\* int(class_id), then float(confidence) for classes 0 and 1.  markdown:
\* int(class_id).
ReadRaises(op, row) ==
    CASE op = "redact" -> row.bad = "page_number"
      [] op \in {"figures", "tables"} ->
            \/ row.bad = "class_id"
            \/ KeepsRow(op, row) /\ row.bad \in {"page_number", "bbox"}
      [] op = "text" ->
            \/ row.bad = "class_id"
            \/ row.class_id \in {0, 1} /\ row.bad = "confidence"
      [] op = "markdown" -> row.bad = "class_id"

\* The order of the visit.  figures and tables: page by page in the order
\* pages first appear in the record (dict insertion order).  redact: the
\* pages of the document in ascending order, rows of other pages never.
\* text and markdown: record order.
RECURSIVE PagesInOrder(_)
PagesInOrder(rows) ==
    IF rows = <<>> THEN <<>>
    ELSE LET rest == PagesInOrder(SubSeq(rows, 1, Len(rows) - 1))
             p == rows[Len(rows)].page_number
         IN  IF \E i \in 1..Len(rest) : rest[i] = p THEN rest ELSE Append(rest, p)

RECURSIVE ByPages(_, _)
ByPages(pages, rows) ==
    IF pages = <<>> THEN <<>>
    ELSE SelectSeq(rows, LAMBDA row : row.page_number = Head(pages))
            \o ByPages(Tail(pages), rows)

PageRange(n) == [p \in 1..n |-> p]

VisitOrder(op, rows, n) ==
    LET kept == SelectSeq(rows, LAMBDA row : KeepsItem(op, row))
    IN  CASE op = "redact" -> ByPages(PageRange(n), kept)
          [] op \in {"figures", "tables"} -> ByPages(PagesInOrder(kept), kept)
          [] OTHER -> kept

\* Whether visiting this row raises out of the operation's try block.
\* process_detections catches what its own conversions raise; the
\* extraction loops index doc[page_number - 1] and convert the box
\* themselves.  Any operation raises when the page library fails.
VisitRaises(op, row, failing, n) ==
    \/ row.page_number \in failing
    \/ op # "redact" /\ row.page_number > n
    \/ op \in {"text", "markdown"} /\ row.bad \in {"page_number", "bbox"}

\* Whether the visited row adds to the output: a redaction rectangle for
\* an abandon row that process_detections could convert, the row's
\* figure, table, text or markdown otherwise.
Contributes(op, row) ==
    IF op = "redact"
    THEN row.bad \notin {"class_id", "confidence", "bbox"}
            /\ row.class_id = AbandonClass /\ row.confidence >= ConfThreshold
    ELSE TRUE

\* except Exception: return False / [] / "".
FailureValue(op) == IF op = "redact" THEN "False" ELSE <<>>

\* return True / extracted_figures / final_text.
ReturnValue(op, output) == IF op = "redact" THEN "True" ELSE output

InitRows ==
    /\ num_pages = MaxPages
    /\ rw_pc = "start"
    /\ rw_op \in RowOps
    /\ \E kinds \in SeqsUpTo(RowKinds(num_pages), MaxBadRows) :
         /\ kinds # <<>>
         /\ rw_rows = WithIds(kinds)
    /\ record = [exists |-> TRUE, rows |-> rw_rows]
    /\ rw_failing \in {{}} \cup {{p} : p \in 1..num_pages}
    /\ rw_failing # {} => \A i \in 1..Len(rw_rows) : rw_rows[i].bad = "none"
    /\ rw_items = <<>>
    /\ rw_index = 0
    /\ rw_output = <<>>
    /\ rw_result = "none"

\* The read loop got through every row.
ReadRecord ==
    /\ rw_pc = "start"
    /\ \A i \in 1..Len(rw_rows) : ~ReadRaises(rw_op, rw_rows[i])
    /\ rw_items' = VisitOrder(rw_op, rw_rows, num_pages)
    /\ rw_pc' = "loop"
    /\ UNCHANGED <<rw_op, rw_rows, rw_failing, rw_index, rw_output, rw_result>>
    /\ UNCHANGED notRows

\* A conversion in the read loop raised: the except clause returns.
ReadRecordRaises ==
    /\ rw_pc = "start"
    /\ \E i \in 1..Len(rw_rows) : ReadRaises(rw_op, rw_rows[i])
    /\ rw_result' = FailureValue(rw_op)
    /\ rw_pc' = "returned"
    /\ UNCHANGED <<rw_op, rw_rows, rw_failing, rw_items, rw_index, rw_output>>
    /\ UNCHANGED notRows

\* One kept row is visited and nothing raises past the loop body.
VisitRow ==
    /\ rw_pc = "loop"
    /\ rw_index < Len(rw_items)
    /\ LET row == rw_items[rw_index + 1]
       IN  /\ ~VisitRaises(rw_op, row, rw_failing, num_pages)
           /\ rw_output' = IF Contributes(rw_op, row)
                           THEN Append(rw_output, row.id) ELSE rw_output
    /\ rw_index' = rw_index + 1
    /\ UNCHANGED <<rw_pc, rw_op, rw_rows, rw_failing, rw_items, rw_result>>
    /\ UNCHANGED notRows

\* Visiting a row raised: the except clause returns and what the earlier
\* rows produced is not returned.
VisitRowRaises ==
    /\ rw_pc = "loop"
    /\ rw_index < Len(rw_items)
    /\ VisitRaises(rw_op, rw_items[rw_index + 1], rw_failing, num_pages)
    /\ rw_result' = FailureValue(rw_op)
    /\ rw_pc' = "returned"
    /\ UNCHANGED <<rw_op, rw_rows, rw_failing, rw_items, rw_index, rw_output>>
    /\ UNCHANGED notRows

\* Every kept row was visited: the output is returned.
ReturnOutput ==
    /\ rw_pc = "loop"
    /\ rw_index = Len(rw_items)
    /\ rw_result' = ReturnValue(rw_op, rw_output)
    /\ rw_pc' = "returned"
    /\ UNCHANGED <<rw_op, rw_rows, rw_failing, rw_items, rw_index, rw_output>>
    /\ UNCHANGED notRows

NextRows ==
    \/ ReadRecord \/ ReadRecordRaises \/ VisitRow \/ VisitRowRaises \/ ReturnOutput

InitRowsSpec == InitRows /\ IdleLayoutLocals /\ IdleCall /\ IdleRedact /\ IdleSection /\ IdleRefs /\ IdleDedup /\ IdleExtract /\ IdleTemp /\ IdleJoin /\ IdleEndpoint /\ IdleRemove /\ IdleRun

SpecRows == InitRowsSpec /\ [][NextRows]_vars

\* ---- Claims about page failures (process_pdf step by step, and the readers) ----

InitPageFailureSpec == InitTempSpec \/ InitRowsSpec

NextPageFailure == NextTemp \/ NextRows

SpecPageFailure == InitPageFailureSpec /\ [][NextPageFailure]_vars

\* Every row parses and names a page of the document.
WellFormedRecord ==
    \A i \in 1..Len(rw_rows) :
        rw_rows[i].bad = "none" /\ rw_rows[i].page_number <= num_pages

RowIds(rows) == [i \in 1..Len(rows) |-> rows[i].id]

\* What the kept rows of the pages that do not fail contribute.
OutputOfOtherPages ==
    RowIds(SelectSeq(VisitOrder(rw_op, rw_rows, num_pages),
                     LAMBDA row : row.page_number \notin rw_failing))

\* C21 as stated: a page that fails is skipped and the output of the other
\* pages is still returned; process_pdf succeeds once a page has produced
\* output.  The code has one try block around the whole loop (and none in
\* process_pdf), so one failing page empties the result.
C21_FailingPageSkipped ==
    /\ (rw_pc = "returned" /\ rw_op \in {"figures", "tables", "markdown"} /\ WellFormedRecord)
          => rw_result = OutputOfOtherPages
    /\ (pc = "done" /\ page_num >= 1) => result = "returned"

\* What the code does instead: with a failing page among the pages it
\* visits, an extraction returns the empty value, whatever the other pages
\* hold, and process_pdf raises without writing the record.
C21_FailingPageEmptiesResult ==
    /\ (rw_pc = "returned" /\ rw_op # "redact" /\ WellFormedRecord
          /\ \E i \in 1..Len(rw_items) : rw_items[i].page_number \in rw_failing)
          => rw_result = <<>>
    /\ (pc = "done" /\ result = "raised") => ~record.exists

\* extract_figures over a figure on page 1 and one on page 2, page 2 failing.
C21_WitnessLostFigure ==
    /\ rw_pc = "returned"
    /\ rw_op = "figures"
    /\ rw_failing = {2}
    /\ Len(rw_items) = 2
    /\ rw_items[1].page_number = 1
    /\ rw_items[2].page_number = 2
    /\ rw_result = <<>>

\* ---- Claims about malformed rows (checked under SpecRows) ----

\* The row parses in every field and names a page of the document.
SoundRow(row) == row.bad = "none" /\ row.page_number <= num_pages

InOutput(row) == \E k \in 1..Len(rw_output) : rw_output[k] = row.id

\* C22 as stated: with no failing page, a malformed row is dropped alone:
\* the operation returns its normal value and every sound row it keeps has
\* contributed.  Only the conversions inside process_detections are caught
\* per row; every other conversion raises out of the loop.
C22_BadRowDroppedAlone ==
    (rw_pc = "returned" /\ rw_failing = {}) =>
        /\ rw_result = ReturnValue(rw_op, rw_output)
        /\ \A i \in 1..Len(rw_rows) :
              (SoundRow(rw_rows[i]) /\ KeepsItem(rw_op, rw_rows[i])
                  /\ Contributes(rw_op, rw_rows[i])) => InOutput(rw_rows[i])

\* What holds: remove_irrelevant_boxes drops a row whose class id,
\* confidence or box does not parse, or whose page is past the document,
\* and still redacts the others; a page_number that does not parse makes
\* it return False.
C22_RedactionDropsBadBox ==
    (rw_pc = "returned" /\ rw_op = "redact" /\ rw_failing = {}) =>
        IF \E i \in 1..Len(rw_rows) : rw_rows[i].bad = "page_number"
        THEN rw_result = "False"
        ELSE /\ rw_result = "True"
             /\ \A i \in 1..Len(rw_rows) :
                   InOutput(rw_rows[i]) <=>
                      (SoundRow(rw_rows[i]) /\ Contributes(rw_op, rw_rows[i]))

\* extract_text over a row whose class_id does not parse and a sound text
\* row: the empty string is returned.
C22_WitnessLostText ==
    /\ rw_pc = "returned"
    /\ rw_op = "text"
    /\ Len(rw_rows) = 2
    /\ rw_rows[1].bad = "class_id"
    /\ SoundRow(rw_rows[2]) /\ KeepsItem("text", rw_rows[2])
    /\ rw_result = <<>>

\* remove_irrelevant_boxes over an abandon row whose box does not parse
\* and a sound abandon row: True, and only the sound row is redacted.
C22_WitnessRedactionDrops ==
    /\ rw_pc = "returned"
    /\ rw_op = "redact"
    /\ Len(rw_rows) = 2
    /\ rw_rows[1].bad = "bbox" /\ rw_rows[1].class_id = AbandonClass
    /\ rw_result = "True"
    /\ rw_output = <<2>>

----------------------------------------------------------------------------
\* ---- Claims about empty results and failures (checked under SpecExtract) ----

\* What an operation returns when no row of the record qualifies.
ResultWhenNoneQualify(op) == RowsKept(op, <<>>)

\* The operation went into its except clause: the PDF could not be opened.
ExtractionFailed == ex_pc = "returned" /\ ~ex_pdf_exists

\* The answer of the /extract-.../ endpoint: 500 when the operation
\* raised, 404 when "not extracted_...", the content otherwise.
ExtractStatus ==
    IF ex_pc = "raised" THEN 500
    ELSE IF ex_result = <<>> THEN 404
    ELSE 200

\* C23 as stated: a failed extraction returns something else than the
\* empty result of a document without qualifying elements, so the caller
\* (the endpoint) can answer 500 rather than 404.  The except clauses
\* return the same [] or "".
C23_FailureDistinctFromEmpty ==
    ExtractionFailed =>
        /\ ex_result # ResultWhenNoneQualify(ex_op)
        /\ ExtractStatus = 500

\* What holds: a failure inside the try block returns the empty result
\* and is answered with 404; only a failure of the detection run, which
\* is outside the try block, raises.
C23_FailureReturnsEmpty ==
    /\ ExtractionFailed => (ex_result = ResultWhenNoneQualify(ex_op) /\ ExtractStatus = 404)
    /\ ex_pc = "raised" => (ex_detect_runs = 1 /\ ~ex_had_record)

\* A record with qualifying rows, an unreadable PDF, the empty result.
C23_WitnessFailed ==
    /\ ExtractionFailed
    /\ RowsKept(ex_op, record.rows) # <<>>
    /\ ex_result = <<>>

\* A readable PDF whose record has rows but none that qualifies.
C23_WitnessEmpty ==
    /\ ex_pc = "returned"
    /\ ex_pdf_exists
    /\ record.rows # <<>>
    /\ RowsKept(ex_op, record.rows) = <<>>
    /\ ex_result = <<>>

----------------------------------------------------------------------------
\* ---- extract_text: joining the texts of the elements ----
\*
\* The loop over the kept rows (classes 0 and 1) of extract_text.  A row
\* is its class and the text that get_text and process_page_text give for
\* its box; the loop looks one row ahead to choose the separator.

MaxJoinRows == 3

ElementTexts == {"", "Foo", "bar"}

TextClasses == {0, 1}

JoinRows == SeqsUpTo([class_id : TextClasses, text : ElementTexts], MaxJoinRows)

\* next_text[0].islower()
StartsLower(text) ==
    text # "" /\ \E k \in 1..Len(LowerLetters) : SubSeq(LowerLetters, k, k) = Char(text, 0)

\* The separator the loop appends after the current text, next row known.
Separator(current_row, next_row) ==
    IF current_row.class_id = next_row.class_id
    THEN IF StartsLower(next_row.text) THEN " " ELSE "\n"
    ELSE "\n\n"

\* "".join(extracted_text)
RECURSIVE JoinPieces(_)
JoinPieces(pieces) ==
    IF pieces = <<>> THEN "" ELSE Head(pieces) \o JoinPieces(Tail(pieces))

InitJoin ==
    /\ jn_pc = "loop"
    /\ jn_rows \in JoinRows
    /\ jn_index = 0
    /\ jn_extracted = <<>>
    /\ jn_final = ""

\* if not current_text: continue
SkipEmptyText ==
    /\ jn_pc = "loop"
    /\ jn_index < Len(jn_rows)
    /\ jn_rows[jn_index + 1].text = ""
    /\ jn_index' = jn_index + 1
    /\ UNCHANGED <<jn_pc, jn_rows, jn_extracted, jn_final>>
    /\ UNCHANGED notJoin

\* if i < len(rows) - 1: the text and the separator chosen from the next row.
AppendWithSeparator ==
    /\ jn_pc = "loop"
    /\ jn_index + 1 < Len(jn_rows)
    /\ jn_rows[jn_index + 1].text # ""
    /\ jn_extracted' = Append(jn_extracted,
            jn_rows[jn_index + 1].text
                \o Separator(jn_rows[jn_index + 1], jn_rows[jn_index + 2]))
    /\ jn_index' = jn_index + 1
    /\ UNCHANGED <<jn_pc, jn_rows, jn_final>>
    /\ UNCHANGED notJoin

\* else: the last row, just the text.
AppendLast ==
    /\ jn_pc = "loop"
    /\ jn_index + 1 = Len(jn_rows)
    /\ jn_rows[jn_index + 1].text # ""
    /\ jn_extracted' = Append(jn_extracted, jn_rows[jn_index + 1].text)
    /\ jn_index' = jn_index + 1
    /\ UNCHANGED <<jn_pc, jn_rows, jn_final>>
    /\ UNCHANGED notJoin

\* final_text = "".join(extracted_text); return final_text
ReturnFinalText ==
    /\ jn_pc = "loop"
    /\ jn_index = Len(jn_rows)
    /\ jn_final' = JoinPieces(jn_extracted)
    /\ jn_pc' = "returned"
    /\ UNCHANGED <<jn_rows, jn_index, jn_extracted>>
    /\ UNCHANGED notJoin

NextJoin == SkipEmptyText \/ AppendWithSeparator \/ AppendLast \/ ReturnFinalText

InitJoinSpec == InitJoin /\ IdleLayout /\ IdleCall /\ IdleRedact /\ IdleSection /\ IdleRefs /\ IdleDedup /\ IdleExtract /\ IdleTemp /\ IdleRows /\ IdleEndpoint /\ IdleRemove /\ IdleRun

SpecJoin == InitJoinSpec /\ [][NextJoin]_vars

\* ---- Claims about the joined text (checked under SpecJoin) ----

\* The elements that have text, in record order.
WithText(rows) == SelectSeq(rows, LAMBDA row : row.text # "")

\* The text in which every two elements that follow each other are joined
\* by the separator of their classes and of the second one's first letter.
RECURSIVE JoinedPairwise(_)
JoinedPairwise(rows) ==
    IF rows = <<>> THEN ""
    ELSE IF Len(rows) = 1 THEN rows[1].text
    ELSE rows[1].text \o Separator(rows[1], rows[2]) \o JoinedPairwise(Tail(rows))

NoEmptyText == \A i \in 1..Len(jn_rows) : jn_rows[i].text # ""

\* C24 as stated: the returned text joins every two adjacent elements by a
\* space (same class, next starts lowercase), a line break (same class
\* otherwise) or a blank line (different classes), also when an element
\* with empty text lies between two elements or comes last.
C24_JoinedPairwiseAlways ==
    jn_pc = "returned" => jn_final = JoinedPairwise(WithText(jn_rows))

\* What holds: the rule is applied to rows adjacent in the record.  It
\* gives the stated text when every element has text.
C24_JoinedPairwiseWithoutEmpty ==
    (jn_pc = "returned" /\ NoEmptyText) => jn_final = JoinedPairwise(jn_rows)

\* Three elements of one class, the middle one without text: "Foo" and
\* "bar" end up on two lines although "bar" starts with a lowercase letter.
C24_WitnessSkipped ==
    /\ jn_pc = "returned"
    /\ Len(jn_rows) = 3
    /\ jn_rows[1] = [class_id |-> 1, text |-> "Foo"]
    /\ jn_rows[2] = [class_id |-> 1, text |-> ""]
    /\ jn_rows[3] = [class_id |-> 1, text |-> "bar"]
    /\ jn_final = "Foo\nbar"

\* The last element without text: the text ends with a separator.
C24_WitnessLastEmpty ==
    /\ jn_pc = "returned"
    /\ Len(jn_rows) = 2
    /\ jn_rows[1] = [class_id |-> 1, text |-> "Foo"]
    /\ jn_rows[2] = [class_id |-> 0, text |-> ""]
    /\ jn_final = "Foo\n\n"

\* Three elements with text, all three separators in use.
C24_WitnessJoined ==
    /\ jn_pc = "returned"
    /\ jn_final = "Foo bar\n\nFoo"

----------------------------------------------------------------------------
\* ---- The /extract-sections/ endpoint (src/src/api.py) ----
\*
\* The handler's one try block: save the upload, build the processor,
\* validate section_type, extract, answer; "except Exception" around it
\* all.  fastapi.HTTPException is a subclass of Exception.  What
\* processor.extract_sections does with the upload is left open: it
\* returns or it raises.

\* section_type = None
NoSectionType == "<None>"

valid_sections == {"methods", "discussion", "results", "das", "all"}

SectionTypes ==
    {NoSectionType, "", " ", "methods", "discussion", "results", "das", "all",
     "Methods", "RESULTS", "All", "method", "figures", "abstract", "all "}

\* str.lower()
RECURSIVE LowerString(_)
LowerString(s) ==
    IF s = "" THEN "" ELSE Lower(Char(s, 0)) \o LowerString(SubSeq(s, 2, Len(s)))

\* if section_type and section_type.lower() not in valid_sections
InvalidSectionType(section_type) ==
    /\ section_type # NoSectionType
    /\ section_type # ""
    /\ LowerString(section_type) \notin valid_sections

\* str.strip() == ""
StripsToEmpty(section_type) == \A k \in 1..Len(section_type) : SubSeq(section_type, k, k) \in Whitespace

InitEndpoint ==
    /\ se_pc = "start"
    /\ se_section_type \in SectionTypes
    /\ se_extract_raises \in BOOLEAN
    /\ se_raised = "none"
    /\ se_status = 0
    /\ se_body = ""

\* The upload is saved and the PDFProcessor is built.
SaveUpload ==
    /\ se_pc = "start"
    /\ se_pc' = "validate"
    /\ UNCHANGED <<se_section_type, se_extract_raises, se_raised, se_status, se_body>>
    /\ UNCHANGED notEndpoint

\* The validation passes.
AcceptSectionType ==
    /\ se_pc = "validate"
    /\ ~InvalidSectionType(se_section_type)
    /\ se_pc' = "extract"
    /\ UNCHANGED <<se_section_type, se_extract_raises, se_raised, se_status, se_body>>
    /\ UNCHANGED notEndpoint

\* raise HTTPException(status_code=400), inside the try block.
RejectSectionType ==
    /\ se_pc = "validate"
    /\ InvalidSectionType(se_section_type)
    /\ se_raised' = "HTTPException(400)"
    /\ se_pc' = "except"
    /\ UNCHANGED <<se_section_type, se_extract_raises, se_status, se_body>>
    /\ UNCHANGED notEndpoint

\* processor.extract_sections returns and the answer is built.
ExtractAndAnswer ==
    /\ se_pc = "extract"
    /\ ~se_extract_raises
    /\ se_status' = 200
    /\ se_body' = IF se_section_type = "all" \/ se_section_type = NoSectionType
                      \/ StripsToEmpty(se_section_type)
                  THEN "sections" ELSE se_section_type
    /\ se_pc' = "responded"
    /\ UNCHANGED <<se_section_type, se_extract_raises, se_raised>>
    /\ UNCHANGED notEndpoint

\* processor.extract_sections raises.
ExtractSectionsRaises ==
    /\ se_pc = "extract"
    /\ se_extract_raises
    /\ se_raised' = "Exception"
    /\ se_pc' = "except"
    /\ UNCHANGED <<se_section_type, se_extract_raises, se_status, se_body>>
    /\ UNCHANGED notEndpoint

\* except Exception as e: raise HTTPException(status_code=500, detail=str(e))
ExceptHandler ==
    /\ se_pc = "except"
    /\ se_status' = 500
    /\ se_body' = "detail"
    /\ se_pc' = "responded"
    /\ UNCHANGED <<se_section_type, se_extract_raises, se_raised>>
    /\ UNCHANGED notEndpoint

NextEndpoint ==
    \/ SaveUpload \/ AcceptSectionType \/ RejectSectionType \/ ExtractAndAnswer
    \/ ExtractSectionsRaises \/ ExceptHandler

InitEndpointSpec == InitEndpoint /\ IdleLayout /\ IdleCall /\ IdleRedact /\ IdleSection /\ IdleRefs /\ IdleDedup /\ IdleExtract /\ IdleTemp /\ IdleRows /\ IdleJoin /\ IdleRemove /\ IdleRun

SpecEndpoint == InitEndpointSpec /\ [][NextEndpoint]_vars

\* ---- Claims about the endpoint (checked under SpecEndpoint) ----

\* The section_type is none of the five names, as the docstring lists them.
NotASectionName ==
    /\ se_section_type \notin {NoSectionType, ""}
    /\ LowerString(se_section_type) \notin valid_sections

\* C26 as stated: a section_type that is not one of methods, discussion,
\* results, das, all is answered with status 400, not 500.  The
\* HTTPException(400) is raised inside the try block and the handler's
\* "except Exception" turns it into a 500.
C26_InvalidTypeAnswered400 ==
    (se_pc = "responded" /\ NotASectionName) => se_status = 400

\* What holds: the invalid type is detected, the 400 is raised, and the
\* answer is 500; no request is ever answered with 400.
C26_InvalidTypeAnswered500 ==
    /\ (se_pc = "responded" /\ NotASectionName) =>
          (se_raised = "HTTPException(400)" /\ se_status = 500)
    /\ se_status # 400

\* The request with section_type "figures" has been answered.
C26_Witness ==
    /\ se_pc = "responded"
    /\ se_section_type = "figures"
    /\ se_status = 500

----------------------------------------------------------------------------
\* doc_layout.py: _reorder_detections and _process_irregular_layout called on
\* pages whose boxes start on and beside the column split lines.

MaxColumnBoxes == 4

\* Every box ends at x1 = 30, so the page is 30 wide: the halves meet at 15
\* and the thirds at 10 and 20.  Each distinct x0 falls into a histogram bin
\* of its own, and with at most ten boxes every occupied bin is a peak.
ColumnBoxes ==
    { [class_id |-> 1, confidence |-> 90000, coordinates |-> <<x0, y0, 30, y0 + 5>>] :
        x0 \in {0, 10, 15, 20}, y0 \in {0, 5} }

InitColumns ==
    /\ call_elements \in { ProcessDetectionResults(d) : d \in SeqsUpTo(ColumnBoxes, MaxColumnBoxes) }
    /\ called = "none"
    /\ call_ordered = <<>>
    /\ call_sections = <<>>

InitColumnsSpec == InitColumns /\ IdleLayout /\ IdleRedact /\ IdleSection /\ IdleRefs /\ IdleDedup /\ IdleExtract /\ IdleTemp /\ IdleRows /\ IdleJoin /\ IdleEndpoint /\ IdleRemove /\ IdleRun
SpecColumns == InitColumnsSpec /\ [][NextCall]_vars

\* Every position of the input is found at exactly one position of the
\* output, unaltered, and the output has no other position.
IsPermutation(output, input) ==
    /\ Len(output) = Len(input)
    /\ \A i \in 1..Len(input) :
            Cardinality({ j \in 1..Len(output) : output[j] = input[i] }) = 1

\* C27: whatever _reorder_detections (or _process_irregular_layout) returns
\* is a permutation of the list it was given: every detection appears
\* exactly once and unaltered, also when its x0 equals a column split line.
C27_ReorderIsPermutation ==
    called # "none" => IsPermutation(call_ordered, call_elements)

OnSplitLine(k, m) ==
    \E i \in 1..Len(call_elements) :
        m * X0(call_elements[i]) = k * PageWidth(call_elements)

C27_Witness ==
    /\ called = "reorder"
    /\ DetectColumns(call_elements, PageWidth(call_elements)) = 3
    /\ OnSplitLine(1, 3)
    /\ OnSplitLine(2, 3)
    /\ call_ordered # call_elements

C27_WitnessTwoColumns ==
    /\ called = "reorder"
    /\ DetectColumns(call_elements, PageWidth(call_elements)) = 2
    /\ OnSplitLine(1, 2)
    /\ call_ordered # call_elements

C27_WitnessIrregular ==
    /\ called = "irregular"
    /\ Len(call_sections) > 1
    /\ call_ordered # call_elements

\* The lists _reorder_detections can return through its three column
\* branches.
ColumnResults(elements) ==
    { SortSingleColumn(elements),
      SortTwoColumns(elements, PageWidth(elements)),
      SortThreeColumns(elements, PageWidth(elements)) }

\* C28: for every non-empty list of boxes _detect_columns returns 1, 2 or 3,
\* so _reorder_detections answers through one of its column branches and
\* never through _process_irregular_layout.
C28_ColumnsOneToThree ==
    (called = "reorder" /\ call_elements # <<>>) =>
        /\ DetectColumns(call_elements, PageWidth(call_elements)) \in {1, 2, 3}
        /\ call_ordered \in ColumnResults(call_elements)

\* More than three peaks, and the sectioned strategy would have answered
\* differently.
C28_Witness ==
    /\ called = "reorder"
    /\ call_elements # <<>>
    /\ Cardinality(Peaks(call_elements, PageWidth(call_elements))) > 3
    /\ call_ordered = SortThreeColumns(call_elements, PageWidth(call_elements))
    /\ call_ordered # ProcessIrregularLayout(call_elements, PageHeight(call_elements))

----------------------------------------------------------------------------
\* remove_irrelevant.py: PDFProcessor.remove_irrelevant_boxes, run on the PDF
\* and the detection record that the PDFProcessor of pdf_processor.py was
\* given, with an output path of its own that starts in the same state.
\* validate_inputs, scale_coordinates and process_detections are the same
\* in both files.

\* row.get(key, default) on a csv.DictReader row
RowGet(row, key, default) == IF key \in DOMAIN row THEN row[key] ELSE default

\* The CSV read loop: rows grouped under int(row.get(key, 0)) - 1.
GroupByKey(rows, key) ==
    [p \in {RowGet(rows[i], key, 0) - 1 : i \in 1..Len(rows)} |->
        SelectSeq(rows, LAMBDA row : RowGet(row, key, 0) - 1 = p)]

\* The column remove_irrelevant.py reads the page from.
PageNumberKey == "page_number :"

InitRemove ==
    /\ ri_pc = "start"
    /\ ri_page_detections = <<>>
    /\ ri_page = 0
    /\ ri_applied = <<>>
    /\ ri_modifications_made = FALSE
    /\ ri_output_pdf = output_pdf
    /\ ri_ret = "none"

\* if not self.validate_inputs(): return False
RemoveValidateFails ==
    /\ ri_pc = "start"
    /\ rq_pc \in {"returned", "responded"}
    /\ ~ValidateInputs
    /\ ri_ret' = "False"
    /\ ri_pc' = "returned"
    /\ UNCHANGED <<ri_page_detections, ri_page, ri_applied, ri_modifications_made, ri_output_pdf>>
    /\ UNCHANGED notRemove

\* open the PDF and read the CSV into page_detections
RemoveReadCsv ==
    /\ ri_pc = "start"
    /\ rq_pc \in {"returned", "responded"}
    /\ ValidateInputs
    /\ ri_page_detections' = GroupByKey(record.rows, PageNumberKey)
    /\ ri_modifications_made' = FALSE
    /\ ri_applied' = [p \in 0..(num_pages - 1) |-> <<>>]
    /\ ri_page' = 0
    /\ ri_pc' = "pages"
    /\ UNCHANGED <<ri_output_pdf, ri_ret>>
    /\ UNCHANGED notRemove

\* One iteration of "for page_num in range(len(doc))".
RemoveRedactPage ==
    /\ ri_pc = "pages"
    /\ ri_page < num_pages
    /\ LET all_redactions ==
            IF ri_page \in DOMAIN ri_page_detections
            THEN AllRedactions(ri_page_detections[ri_page])
            ELSE <<>>
       IN  /\ ri_applied' = [ri_applied EXCEPT ![ri_page] = all_redactions]
           /\ ri_modifications_made' = (ri_modifications_made \/ all_redactions # <<>>)
    /\ ri_page' = ri_page + 1
    /\ UNCHANGED <<ri_pc, ri_page_detections, ri_output_pdf, ri_ret>>
    /\ UNCHANGED notRemove

\* After the loop: save if modified, close, return True.
RemoveFinish ==
    /\ ri_pc = "pages"
    /\ ri_page = num_pages
    /\ ri_output_pdf' = SaveIfModified(ri_modifications_made, ri_output_pdf)
    /\ ri_ret' = "True"
    /\ ri_pc' = "returned"
    /\ UNCHANGED <<ri_page_detections, ri_page, ri_applied, ri_modifications_made>>
    /\ UNCHANGED notRemove

NextRemove == RemoveValidateFails \/ RemoveReadCsv \/ RemoveRedactPage \/ RemoveFinish

NextTwoRemovers == NextRedact \/ NextRemove

InitTwoRemoversSpec == InitRedact /\ InitRemove /\ IdleLayoutLocals /\ IdleCall /\ IdleSection /\ IdleRefs /\ IdleDedup /\ IdleExtract /\ IdleTemp /\ IdleRows /\ IdleJoin /\ IdleEndpoint /\ IdleRun
SpecTwoRemovers == InitTwoRemoversSpec /\ [][NextTwoRemovers]_vars

\* Both implementations have returned True on a record that existed from
\* the start (pdf_processor.py did not regenerate it).
BothRemoved ==
    /\ rq_pc \in {"returned", "responded"}
    /\ ri_pc = "returned"
    /\ ret = "True"
    /\ ri_ret = "True"
    /\ detect_runs = 0

\* C29: given the same PDF and the same existing record, the two
\* implementations of remove_irrelevant_boxes group each row under the page
\* its page_number column names, apply the same rectangles to the same
\* pages and agree on whether the output file is saved.
C29_SameRedactions ==
    BothRemoved =>
        /\ ri_page_detections = csv_page_detections
        /\ ri_applied = applied
        /\ ri_output_pdf = output_pdf

\* What remove_irrelevant.py does instead: every row is grouped under page
\* index -1, no page is redacted and nothing is saved.
C29_RemoveIrrelevantNeverRedacts ==
    ri_pc = "returned" =>
        /\ DOMAIN ri_page_detections \subseteq {-1}
        /\ ~ri_modifications_made
        /\ ri_output_pdf # "written"
        /\ (ri_ret = "True" => \A p \in 0..(num_pages - 1) : ri_applied[p] = <<>>)

C29_WitnessDiffer ==
    /\ BothRemoved
    /\ \E p \in 0..(num_pages - 1) : applied[p] # <<>> /\ ri_applied[p] = <<>>
    /\ output_pdf = "written"
    /\ ri_output_pdf # "written"

\* A record without a row to redact: the two agree.
C29_WitnessAgree ==
    /\ BothRemoved
    /\ record.rows # <<>>
    /\ ri_applied = applied
    /\ ri_output_pdf = output_pdf

----------------------------------------------------------------------------
\* run.py: main, run_backend, run_frontend and the processes they start.

FrontendStatuses == {0, 1}
BackendStatuses == {0, 1}
\* Exit status of a process ended by SIGTERM, as Popen reports it.
Sigterm == -15

\* try: run_frontend() finally: ...: where control goes when the try body
\* is left, normally or with an exception.
AfterTry_sequenced(exception) == IF exception = "none" THEN "terminate" ELSE "done"

AfterTry(exception) == "terminate"

\* Exit status of the interpreter for the exception main ends with.
ExitStatus(exception) ==
    IF exception = "none" THEN 0
    ELSE IF exception = "KeyboardInterrupt" THEN 130
    ELSE 1

InitRun ==
    /\ args_mode \in {"backend", "full"}
    /\ mn_pc = "start"
    /\ backend_process = "none"
    /\ backend_returncode = <<>>
    /\ frontend_process = "none"
    /\ frontend_returncode = <<>>
    /\ mn_raised = "none"
    /\ terminate_calls = 0
    /\ wait_calls = 0
    /\ exit_code = <<>>

\* args = parser.parse_args(); if args.mode == "backend": ... else: ...
ParseArgs ==
    /\ mn_pc = "start"
    /\ mn_pc' = IF args_mode = "backend" THEN "run_backend" ELSE "popen"
    /\ UNCHANGED <<args_mode, backend_process, backend_returncode, frontend_process, frontend_returncode, mn_raised, terminate_calls, wait_calls, exit_code>>
    /\ UNCHANGED notRun

\* run_backend: subprocess.run([sys.executable, "api.py"], check=True)
\* starts the process and blocks.
RunBackend ==
    /\ mn_pc = "run_backend"
    /\ backend_process' = "running"
    /\ mn_pc' = "backend_wait"
    /\ UNCHANGED <<args_mode, backend_returncode, frontend_process, frontend_returncode, mn_raised, terminate_calls, wait_calls, exit_code>>
    /\ UNCHANGED notRun

\* subprocess.run returns in run_backend; a non-zero status raises
\* CalledProcessError, which run_backend turns into sys.exit(1).
RunBackendReturns ==
    /\ mn_pc = "backend_wait"
    /\ backend_process = "exited"
    /\ mn_raised' = IF backend_returncode = <<0>> THEN "none" ELSE "SystemExit"
    /\ exit_code' = <<ExitStatus(mn_raised')>>
    /\ mn_pc' = "done"
    /\ UNCHANGED <<args_mode, backend_process, backend_returncode, frontend_process, frontend_returncode, terminate_calls, wait_calls>>
    /\ UNCHANGED notRun

\* KeyboardInterrupt while subprocess.run blocks in run_backend: it kills
\* the child and re-raises.
BackendInterrupted ==
    /\ mn_pc = "backend_wait"
    /\ backend_process' = IF backend_process = "running" THEN "killed" ELSE backend_process
    /\ mn_raised' = "KeyboardInterrupt"
    /\ exit_code' = <<ExitStatus("KeyboardInterrupt")>>
    /\ mn_pc' = "done"
    /\ UNCHANGED <<args_mode, backend_returncode, frontend_process, frontend_returncode, terminate_calls, wait_calls>>
    /\ UNCHANGED notRun

\* backend_process = subprocess.Popen([sys.executable, "api.py"])
StartBackend ==
    /\ mn_pc = "popen"
    /\ backend_process' = "running"
    /\ mn_pc' = "run_frontend"
    /\ UNCHANGED <<args_mode, backend_returncode, frontend_process, frontend_returncode, mn_raised, terminate_calls, wait_calls, exit_code>>
    /\ UNCHANGED notRun

\* Popen raises (no process could be created): the statement is outside
\* the try, main ends with the exception and no backend exists.
PopenRaises ==
    /\ mn_pc = "popen"
    /\ mn_raised' = "OSError"
    /\ exit_code' = <<ExitStatus("OSError")>>
    /\ mn_pc' = "done"
    /\ UNCHANGED <<args_mode, backend_process, backend_returncode, frontend_process, frontend_returncode, terminate_calls, wait_calls>>
    /\ UNCHANGED notRun

\* run_frontend: subprocess.run([sys.executable, "app.py"], check=True)
\* starts the process and blocks.
StartFrontend ==
    /\ mn_pc = "run_frontend"
    /\ frontend_process' = "running"
    /\ mn_pc' = "frontend_wait"
    /\ UNCHANGED <<args_mode, backend_process, backend_returncode, frontend_returncode, mn_raised, terminate_calls, wait_calls, exit_code>>
    /\ UNCHANGED notRun

\* subprocess.run cannot create the process: OSError is not a
\* CalledProcessError, so run_frontend lets it through.
FrontendStartRaises ==
    /\ mn_pc = "run_frontend"
    /\ frontend_process' = "failed"
    /\ mn_raised' = "OSError"
    /\ mn_pc' = AfterTry("OSError")
    /\ UNCHANGED <<args_mode, backend_process, backend_returncode, frontend_returncode, terminate_calls, wait_calls, exit_code>>
    /\ UNCHANGED notRun

\* The frontend process ends.
FrontendExits ==
    /\ frontend_process = "running"
    /\ \E status \in FrontendStatuses : frontend_returncode' = <<status>>
    /\ frontend_process' = "exited"
    /\ UNCHANGED <<args_mode, mn_pc, backend_process, backend_returncode, mn_raised, terminate_calls, wait_calls, exit_code>>
    /\ UNCHANGED notRun

\* subprocess.run returns; with check=True a non-zero status raises
\* CalledProcessError, which run_frontend turns into sys.exit(1).
RunFrontendReturns ==
    /\ mn_pc = "frontend_wait"
    /\ frontend_process = "exited"
    /\ mn_raised' = IF frontend_returncode = <<0>> THEN "none" ELSE "SystemExit"
    /\ mn_pc' = AfterTry(mn_raised')
    /\ UNCHANGED <<args_mode, backend_process, backend_returncode, frontend_process, frontend_returncode, terminate_calls, wait_calls, exit_code>>
    /\ UNCHANGED notRun

\* KeyboardInterrupt while subprocess.run blocks: it kills the child and
\* re-raises; run_frontend does not catch it.
FrontendInterrupted ==
    /\ mn_pc = "frontend_wait"
    /\ frontend_process' = IF frontend_process = "running" THEN "killed" ELSE frontend_process
    /\ mn_raised' = "KeyboardInterrupt"
    /\ mn_pc' = AfterTry("KeyboardInterrupt")
    /\ UNCHANGED <<args_mode, backend_process, backend_returncode, frontend_returncode, terminate_calls, wait_calls, exit_code>>
    /\ UNCHANGED notRun

\* finally: backend_process.terminate() sends SIGTERM unless the process
\* has already ended.
Terminate ==
    /\ mn_pc = "terminate"
    /\ terminate_calls' = terminate_calls + 1
    /\ backend_process' = IF backend_process = "running" THEN "signalled" ELSE backend_process
    /\ mn_pc' = "wait"
    /\ UNCHANGED <<args_mode, backend_returncode, frontend_process, frontend_returncode, mn_raised, wait_calls, exit_code>>
    /\ UNCHANGED notRun

\* backend_process.wait() is called and blocks
CallWait ==
    /\ mn_pc = "wait"
    /\ wait_calls' = wait_calls + 1
    /\ mn_pc' = "waiting"
    /\ UNCHANGED <<args_mode, backend_process, backend_returncode, frontend_process, frontend_returncode, mn_raised, terminate_calls, exit_code>>
    /\ UNCHANGED notRun

\* wait() returns once the backend has ended; the finally clause is over,
\* the pending exception (if any) leaves main.
WaitReturns ==
    /\ mn_pc = "waiting"
    /\ backend_process = "exited"
    /\ exit_code' = <<ExitStatus(mn_raised)>>
    /\ mn_pc' = "done"
    /\ UNCHANGED <<args_mode, backend_process, backend_returncode, frontend_process, frontend_returncode, mn_raised, terminate_calls, wait_calls>>
    /\ UNCHANGED notRun

\* The backend ends by itself (api.py fails, or its server is stopped).
BackendExits ==
    /\ backend_process = "running"
    /\ \E status \in BackendStatuses : backend_returncode' = <<status>>
    /\ backend_process' = "exited"
    /\ UNCHANGED <<args_mode, mn_pc, frontend_process, frontend_returncode, mn_raised, terminate_calls, wait_calls, exit_code>>
    /\ UNCHANGED notRun

\* The backend ends after SIGTERM: killed by it, or shut down by its
\* handler.
BackendTerminated ==
    /\ backend_process = "signalled"
    /\ \E status \in {Sigterm, 0} : backend_returncode' = <<status>>
    /\ backend_process' = "exited"
    /\ UNCHANGED <<args_mode, mn_pc, frontend_process, frontend_returncode, mn_raised, terminate_calls, wait_calls, exit_code>>
    /\ UNCHANGED notRun

\* The statements main executes, and what the two child processes do.
NextMain ==
    \/ ParseArgs \/ RunBackend \/ RunBackendReturns \/ BackendInterrupted
    \/ StartBackend \/ PopenRaises \/ StartFrontend \/ FrontendStartRaises
    \/ RunFrontendReturns \/ FrontendInterrupted \/ Terminate \/ CallWait \/ WaitReturns

NextRun == NextMain \/ FrontendExits \/ BackendExits \/ BackendTerminated

InitRunSpec == InitRun /\ IdleLayout /\ IdleCall /\ IdleRedact /\ IdleSection /\ IdleRefs /\ IdleDedup /\ IdleExtract /\ IdleTemp /\ IdleRows /\ IdleJoin /\ IdleEndpoint /\ IdleRemove

\* The interpreter keeps executing main: a statement that can run does run.
SpecRun == InitRunSpec /\ [][NextRun]_vars /\ WF_vars(NextMain)

FrontendStopped == frontend_process \in {"exited", "killed", "failed"}

BackendReaped ==
    /\ terminate_calls = 1
    /\ wait_calls = 1
    /\ backend_process = "exited"

\* C30: in full mode, once the frontend has stopped (normally, with a
\* failure status that makes run_frontend call sys.exit(1), or through an
\* exception) main calls terminate() and wait() on the backend it started,
\* and main is never done while that backend is still running.
C30_BackendTerminatedAndWaited ==
    /\ [](mn_pc = "done" /\ args_mode = "full" /\ backend_process # "none" => BackendReaped)
    /\ (args_mode = "full" /\ FrontendStopped ~> (terminate_calls = 1 /\ wait_calls = 1))

C30_Witness ==
    /\ mn_pc = "done"
    /\ mn_raised = "SystemExit"
    /\ frontend_returncode = <<1>>
    /\ BackendReaped
    /\ backend_returncode = <<Sigterm>>

C30_WitnessInterrupted ==
    /\ mn_pc = "done"
    /\ mn_raised = "KeyboardInterrupt"
    /\ frontend_process = "killed"
    /\ BackendReaped

C30_WitnessNormal ==
    /\ mn_pc = "done"
    /\ mn_raised = "none"
    /\ frontend_returncode = <<0>>
    /\ BackendReaped

====
